---- MODULE Spec2Model ----
(***************************************************************************)
(* Model of the PEP 517 build daemon supervisor                            *)
(* (crates/puffin-build/src/daemon.rs): the parent-side state of one       *)
(* Pep517Daemon instance, the child processes it spawns, and the pipes     *)
(* between them.  One action per suspension-free stretch of the async      *)
(* code: a hook call runs from its entry to its first await, every await   *)
(* on the child's output is one receive_one step, and so on.               *)
(***************************************************************************)
EXTENDS Integers, Sequences, FiniteSets, TLC

(* ---------------------------- bounds ----------------------------------- *)

\* children one daemon instance may spawn during a run
MaxSpawns == 2
\* lines a child's stdout pipe holds before the child blocks
MaxPipe == 1
\* commands a child's stdin pipe holds before the parent blocks
MaxInbox == 1

\* unanswered commands counted per child; the count saturates here
MaxUnanswered == 2

\* backend paths in a backend descriptor
MaxPaths == 1
\* elements in the list a backend returns from get_requires_for_build
MaxElems == 2
\* requirements handed to HashStrategy::require / verify
MaxReqs == 2
\* records a child writes to its output before the output ends
MaxRecords == 4
\* space-separated tokens of a line of the child's output
MaxTokens == 4
\* records a child writes before it closes its output, falls silent or goes
\* on with advisory records for ever
MaxAwaited == 3

ChildIds == 1..MaxSpawns

(* ---------------------------- wire records ----------------------------- *)

\* A line on the child's stdout, tokenised: the keyword, the second token
\* (the kind of ERROR / FATAL) and the rest of the line as characters.
Line(tag, a, b) == [tag |-> tag, a |-> a, b |-> b]

\* the escape sequence backslash-n, as one character of a raw line
ESC == "\\n"
\* a real newline
NL == "\n"

OkPayloads == { <<"[", "'", "w", "'", "]">>, <<"f">> }
TracebackPayloads == { <<"x", ESC, ESC, "y">> }

ReadyLine == Line("READY", "", <<>>)
ShutdownLine == Line("SHUTDOWN", "", <<>>)
AdvisoryLines == { Line(t, "", <<>>) : t \in {"DEBUG", "EXPECT"} }
OutputLines == { Line(t, "", <<"p">>) : t \in {"STDOUT", "STDERR"} }
OkLines == { Line("OK", "", p) : p \in OkPayloads }
ErrorLines == { Line("ERROR", "HookRuntimeError", <<"m">>) }
FatalLines == { Line("FATAL", "ImportError", <<"n">>) }
TracebackLines == { Line("TRACEBACK", "", p) : p \in TracebackPayloads }
\* a line whose keyword is none of the ten known ones
GarbageLine == Line("GARBAGE", "", <<>>)
\* the empty line
EmptyLine == Line("", "", <<>>)

ProtocolLines == {ReadyLine, ShutdownLine} \cup AdvisoryLines \cup OutputLines
                 \cup OkLines \cup ErrorLines \cup FatalLines \cup TracebackLines
Lines == ProtocolLines \cup {GarbageLine, EmptyLine}

(* ---------------------------- parsing ---------------------------------- *)

RECURSIVE ReplaceEsc(_)
\* str::replace("\\n", "\n") on a character sequence
ReplaceEsc(s) ==
    IF s = <<>> THEN <<>>
    ELSE <<(IF Head(s) = ESC THEN NL ELSE Head(s))>> \o ReplaceEsc(Tail(s))

RECURSIVE CollapseNL_runs(_)
\* variant: a run of newlines of any length becomes one newline
CollapseNL_runs(s) ==
    IF Len(s) < 2 THEN s
    ELSE IF s[1] = NL /\ s[2] = NL
         THEN CollapseNL_runs(Tail(s))
         ELSE <<s[1]>> \o CollapseNL_runs(Tail(s))

RECURSIVE CollapseNL(_)
\* str::replace("\n\n", "\n"): one left-to-right pass over non-overlapping
\* matches
CollapseNL(s) ==
    IF Len(s) < 2 THEN s
    ELSE IF s[1] = NL /\ s[2] = NL
         THEN <<NL>> \o CollapseNL(SubSeq(s, 3, Len(s)))
         ELSE <<s[1]>> \o CollapseNL(Tail(s))

DecodeTraceback(s) == CollapseNL(ReplaceEsc(s))

HookErrorKind_try_from_str(name) ==
    IF name \in {"MissingBackendModule", "MissingBackendAttribute",
                 "MalformedBackendName", "BackendImportError",
                 "InvalidHookName", "InvalidAction", "UnsupportedHook",
                 "MalformedHookArgument", "HookRuntimeError"}
    THEN [ok |-> TRUE, kind |-> name]
    ELSE [ok |-> FALSE, err |-> [tag |-> "UnknownErrorKind", text |-> name]]

\* line.splitn(3, ' ').next(): a split yields at least one piece, the empty
\* string for the empty line
splitn_next(line) == [some |-> TRUE, kind |-> line.tag]

\* DaemonResponse::try_from_str on a tokenised line: ok with the response,
\* or the DaemonError
try_from_str(line) ==
    IF ~splitn_next(line).some THEN [ok |-> FALSE, err |-> [tag |-> "EmptyResponse"]]
    ELSE
    CASE line.tag \in {"DEBUG", "EXPECT", "OK", "STDOUT", "STDERR"} ->
            [ok |-> TRUE, response |-> line]
      [] line.tag = "TRACEBACK" ->
            [ok |-> TRUE, response |-> Line("TRACEBACK", "", DecodeTraceback(line.b))]
      [] line.tag = "ERROR" ->
            IF HookErrorKind_try_from_str(line.a).ok
            THEN [ok |-> TRUE, response |-> line]
            ELSE [ok |-> FALSE, err |-> HookErrorKind_try_from_str(line.a).err]
      [] line.tag \in {"READY", "SHUTDOWN"} ->
            [ok |-> TRUE, response |-> Line(line.tag, "", <<>>)]
      [] line.tag = "FATAL" ->
            [ok |-> TRUE, response |-> line]
      [] OTHER ->
            [ok |-> FALSE, err |-> [tag |-> "UnknownResponse", line |-> line]]

(* ---------------------------- hook results ----------------------------- *)

Hooks == {"get_requires_for_build", "prepare_metadata_for_build", "build"}

RECURSIVE SplitCommaSpace(_, _)
\* str::split(", "): the pieces of s, cur being the piece under construction
SplitCommaSpace(s, cur) ==
    IF s = <<>> THEN <<cur>>
    ELSE IF Len(s) >= 2 /\ s[1] = "," /\ s[2] = " "
         THEN <<cur>> \o SplitCommaSpace(SubSeq(s, 3, Len(s)), <<>>)
         ELSE SplitCommaSpace(Tail(s), Append(cur, Head(s)))

\* item.strip_prefix('\'').and_then(|item| item.strip_suffix('\''))
StripQuotes(item) ==
    IF Len(item) >= 1 /\ item[1] = "'"
    THEN LET rest == Tail(item)
         IN  IF Len(rest) >= 1 /\ rest[Len(rest)] = "'"
             THEN [some |-> TRUE, item |-> SubSeq(rest, 1, Len(rest) - 1)]
             ELSE [some |-> FALSE, item |-> <<>>]
    ELSE [some |-> FALSE, item |-> <<>>]

\* Requirement::from_str succeeds: a requirement specifier has no blank
\* inside the name
ValidRequirement(item) == \A i \in 1..Len(item) : item[i] # " "

RECURSIVE MapStrip(_)
MapStrip(items) ==
    IF items = <<>> THEN <<>>
    ELSE <<StripQuotes(Head(items))>> \o MapStrip(Tail(items))

RECURSIVE MapItem(_)
MapItem(opts) ==
    IF opts = <<>> THEN <<>> ELSE <<Head(opts).item>> \o MapItem(Tail(opts))

IsSome(opt) == opt.some
\* variant: the filter on empty items lets everything through
NonEmpty_any(item) == TRUE
NonEmpty(item) == item # <<>>
Invalid(item) == ~ValidRequirement(item)

\* the value get_requires_for_build makes of an OK payload
ParseRequirements(result) ==
    IF result = <<>> \/ Head(result) # "["
    THEN [tag |-> "Panic"]
    ELSE LET rest == Tail(result)
         IN  IF rest = <<>> \/ rest[Len(rest)] # "]"
             THEN [tag |-> "Panic"]
             ELSE LET inner == SubSeq(rest, 1, Len(rest) - 1)
                      items == SelectSeq(
                                 MapItem(SelectSeq(MapStrip(SplitCommaSpace(inner, <<>>)), IsSome)),
                                 NonEmpty)
                      bad == SelectSeq(items, Invalid)
                  IN  IF bad # <<>>
                      THEN [tag |-> "InvalidResult", item |-> Head(bad)]
                      ELSE [tag |-> "Ok", value |-> items]

\* what the public operation returns when run_hook returned Ok(result)
HookReturn(hook, result) ==
    CASE hook = "build" -> [tag |-> "Ok", value |-> result]
      [] hook = "prepare_metadata_for_build" -> [tag |-> "Ok", value |-> <<"Some", result>>]
      [] hook = "get_requires_for_build" -> ParseRequirements(result)

(* ---------------------------- state ------------------------------------ *)

VARIABLES
    handle,         \* Pep517Daemon.handle: id of the child held, 0 for None
    stdout,         \* Pep517Daemon.stdout: id of the child whose output is read, 0 for None
    stdin,          \* Pep517Daemon.stdin: id of the child whose input is written, 0 for None
    closed,         \* Pep517Daemon.closed
    pc,             \* where the call in progress is suspended; "idle" between calls
    op,             \* the public operation in progress
    phase,          \* "ready": inside ensure_started; "await": inside run_hook's loop
    local,          \* the ERROR / FATAL response whose TRACEBACK is being read
    closing,        \* close()'s local handle, taken out of self.handle
    caller,         \* who called close(): "api" or "eof" (receive_one)
    hook_result,    \* what run_hook returned to the public operation
    ret,            \* what the last public operation returned
    children,       \* the child processes, by id
    spawned,        \* number of children spawned so far
    conforming,     \* the children follow the wire protocol
    exited_seen,    \* history: the child this call's exit check found to have exited, 0 for none
    spawned_by_call,\* history: this call's ensure_started spawned a child
    ready_from,     \* history: the child whose READY this call's ready check accepted, 0 for none
    came_from,      \* history: how the operation before the call in progress ended
    input,          \* the arguments of a hook call followed on its own, and the OK payload it is answered with
    output          \* what that call wrote and returned

daemon == <<handle, stdout, stdin, closed>>
frame == <<pc, op, phase, local, closing, caller>>
history == <<exited_seen, spawned_by_call, ready_from, came_from>>
pure == <<input, output>>
vars == <<handle, stdout, stdin, closed, pc, op, phase, local,
          closing, caller, hook_result, ret, children, spawned, conforming,
          exited_seen, spawned_by_call, ready_from, came_from, input, output>>

NoLine == Line("NONE", "", <<>>)
NoRet == [tag |-> "None"]

\* a process that does not exist (yet, or any more for this daemon)
NoChild == [alive |-> FALSE, phase |-> "none", out |-> <<>>, inbox |-> <<>>,
            unanswered |-> 0]
\* a process just spawned
FreshChild(conf) ==
    [alive |-> TRUE, phase |-> IF conf THEN "starting" ELSE "any",
     out |-> <<>>, inbox |-> <<>>, unanswered |-> 0]

\* Pep517Daemon::new: no child, no streams, not closed
Pep517Daemon_new ==
    /\ handle = 0 /\ stdout = 0 /\ stdin = 0
    /\ closed = FALSE
    /\ pc = "idle" /\ op = "none" /\ phase = "none"
    /\ local = NoLine /\ closing = 0 /\ caller = "none"
    /\ hook_result = NoRet /\ ret = NoRet
    /\ children = [c \in ChildIds |-> NoChild]
    /\ spawned = 0
    /\ exited_seen = 0 /\ spawned_by_call = FALSE /\ ready_from = 0 /\ came_from = "none"

Init ==
    /\ Pep517Daemon_new
    /\ conforming \in BOOLEAN
    /\ input = NoRet /\ output = NoRet

(* ---------------------------- the child -------------------------------- *)

\* The bundled hook script as the wire protocol describes it: the phase the
\* child is in after emitting `line` in phase `ph`, "no" if a child that
\* follows the protocol does not emit that line there.
ConformingEmit(ph, line) ==
    CASE ph = "starting" ->
            (CASE line = ReadyLine -> "idle"
               [] line \in AdvisoryLines -> "starting"
               [] line \in FatalLines -> "fataled"
               [] OTHER -> "no")
      [] ph = "idle" ->
            (CASE line \in AdvisoryLines -> "idle"
               [] line \in FatalLines -> "fataled"
               [] OTHER -> "no")
      [] ph = "running" ->
            (CASE line \in AdvisoryLines \cup OutputLines -> "running"
               [] line \in OkLines -> "done"
               [] line \in ErrorLines -> "errored"
               [] line \in FatalLines -> "fataled"
               [] OTHER -> "no")
      [] ph = "errored" -> IF line \in TracebackLines THEN "done" ELSE "no"
      [] ph = "done" -> IF line = ReadyLine THEN "idle" ELSE "no"
      [] ph = "fataled" -> IF line \in TracebackLines THEN "dying" ELSE "no"
      [] OTHER -> "no"

\* the children the daemon can still observe or reach
Observable == {handle, stdout, stdin, closing} \ {0}

\* the child writes one line to its stdout
ChildEmit(c, line) ==
    /\ c \in Observable
    /\ children[c].alive
    /\ Len(children[c].out) < MaxPipe
    /\ IF conforming
       THEN /\ ConformingEmit(children[c].phase, line) # "no"
            /\ children' = [children EXCEPT ![c].out = Append(@, line),
                                            ![c].phase = ConformingEmit(children[c].phase, line)]
       ELSE children' = [children EXCEPT ![c].out = Append(@, line)]
    /\ UNCHANGED <<daemon, frame, hook_result, ret, spawned, conforming, pure, history>>

\* the child reads one command from its stdin
ChildRead(c) ==
    /\ c \in Observable
    /\ children[c].alive
    /\ children[c].inbox # <<>>
    /\ IF conforming
       THEN /\ children[c].phase = "idle"
            /\ IF Head(children[c].inbox) = "run"
               THEN children' = [children EXCEPT ![c].inbox = Tail(@), ![c].phase = "running"]
               ELSE /\ Len(children[c].out) < MaxPipe
                    /\ children' = [children EXCEPT ![c].inbox = Tail(@),
                                                    ![c].out = Append(@, ShutdownLine),
                                                    ![c].phase = "dying"]
       ELSE children' = [children EXCEPT ![c].inbox = Tail(@)]
    /\ UNCHANGED <<daemon, frame, hook_result, ret, spawned, conforming, pure, history>>

\* the child process exits (on its own after SHUTDOWN or FATAL, or killed):
\* its ends of the pipes close, what it wrote stays readable
ChildExit(c) ==
    /\ c \in Observable
    /\ children[c].alive
    /\ children' = [children EXCEPT ![c].alive = FALSE, ![c].inbox = <<>>]
    /\ UNCHANGED <<daemon, frame, hook_result, ret, spawned, conforming, pure, history>>

(* ---------------------------- the daemon ------------------------------- *)

Continue(p, ph, l) == [pc |-> p, phase |-> ph, local |-> l, done |-> FALSE, result |-> NoRet]
Return(result) == [pc |-> "idle", phase |-> "none", local |-> NoLine, done |-> TRUE, result |-> result]

Err(tag) == [tag |-> tag]

\* variant: no exit check, a handle once held counts as a running child
started_unchecked(h, ch) == h # 0

\* variant: the check's result is ignored, every call spawns
started_never(h, ch) == FALSE

\* ensure_started: the exit check on the handle held
started(h, ch) == h # 0 /\ ch[h].alive

\* ensure_started: the children after start() and the replacement of the
\* handle and the streams by those of child `new`; a process no stream or
\* handle refers to any more is out of the daemon's reach
start(new, ch, conf, refs) ==
    [c \in ChildIds |-> IF c = new THEN FreshChild(conf)
                        ELSE IF c \in refs THEN ch[c] ELSE NoChild]

\* variant: the flag is set, not cleared
closed_after_start_set(was) == TRUE

\* variant: the flag is left as close() set it
closed_after_start_kept(was) == was

\* ensure_started: the closed flag after the handle of the new child is stored
closed_after_start(was) == FALSE

\* variant: the streams of the new child are not taken
stream_after_spawn_missing(old, new) == old

\* variant: the streams of the first child are taken again
stream_after_spawn_first(old, new) == 1

\* variant: a stream already held is kept, only a missing one is taken
stream_after_spawn_kept(old, new) == IF old # 0 THEN old ELSE new

\* ensure_started: the stream the daemon reads / writes after a spawn
stream_after_spawn(old, new) == new

\* variant: whatever actionable response arrives counts as ready
ensure_started_ready_any(response) == Continue("write", "await", NoLine)

\* variant: STDOUT / STDERR are skipped in the ready wait as they are in
\* run_hook
ensure_started_ready_skip_output(response) ==
    IF response = ReadyLine
    THEN Continue("write", "await", NoLine)
    ELSE IF response.tag \in {"STDOUT", "STDERR"}
         THEN Continue("recv", "ready", NoLine)
         ELSE Return(Err("NotReady"))

\* ensure_started: the first actionable response must be READY
ensure_started_ready(response) ==
    IF response = ReadyLine
    THEN Continue("write", "await", NoLine)
    ELSE Return(Err("NotReady"))

\* variant: the text of whatever response follows is taken
traceback_of_any(response) == response.b

\* the text of the response read after ERROR / FATAL, blank unless it is a
\* TRACEBACK
traceback_of(response) ==
    IF response.tag = "TRACEBACK" THEN response.b ELSE <<>>

\* variant: OK is passed over like STDOUT and STDERR
run_hook_match_ok_skipped(response) ==
    CASE response.tag \in {"STDERR", "STDOUT", "OK"} -> Continue("recv", "await", NoLine)
      [] response.tag = "ERROR" -> Continue("tb_error", "await", response)
      [] OTHER -> Return([tag |-> "UnexpectedResponse", response |-> response])

\* variant: the arms for STDOUT and STDERR are missing
run_hook_match_no_skip(response) ==
    CASE response.tag = "OK" -> Return([tag |-> "Ok", value |-> response.b])
      [] response.tag = "ERROR" -> Continue("tb_error", "await", response)
      [] OTHER -> Return([tag |-> "UnexpectedResponse", response |-> response])

\* variant: ERROR fails the call at once, the TRACEBACK is left unread
run_hook_match_no_traceback(response) ==
    CASE response.tag \in {"STDERR", "STDOUT"} -> Continue("recv", "await", NoLine)
      [] response.tag = "OK" -> Return([tag |-> "Ok", value |-> response.b])
      [] response.tag = "ERROR" ->
            Return([tag |-> "HookError", message |-> response.b, traceback |-> <<>>])
      [] OTHER -> Return([tag |-> "UnexpectedResponse", response |-> response])

\* run_hook: the match on an actionable response
run_hook_match(response) ==
    CASE response.tag \in {"STDERR", "STDOUT"} -> Continue("recv", "await", NoLine)
      [] response.tag = "OK" -> Return([tag |-> "Ok", value |-> response.b])
      [] response.tag = "ERROR" -> Continue("tb_error", "await", response)
      [] OTHER -> Return([tag |-> "UnexpectedResponse", response |-> response])

\* variant: the traceback read is dropped
hook_error_no_traceback(error, traceback) ==
    [tag |-> "HookError", message |-> error.b, traceback |-> <<>>]

\* run_hook: the error built from ERROR(_kind, message) and the traceback
hook_error(error, traceback) ==
    [tag |-> "HookError", message |-> error.b, traceback |-> traceback]

\* receive_until_actionable: the error built from FATAL(kind, message)
crashed_error(fatal, traceback) ==
    [tag |-> "Crashed", kind |-> fatal.a, message |-> fatal.b, traceback |-> traceback]

\* variant: no arm for DEBUG and EXPECT, they are returned like any
\* actionable response
receive_until_actionable_no_skip(ph, response) ==
    CASE response.tag = "FATAL" -> Continue("tb_fatal", ph, response)
      [] OTHER -> IF ph = "ready" THEN ensure_started_ready(response)
                  ELSE run_hook_match(response)

\* variant: no arm for FATAL, it is returned like any actionable response
receive_until_actionable_no_fatal(ph, response) ==
    CASE response.tag \in {"DEBUG", "EXPECT"} -> Continue("recv", ph, NoLine)
      [] OTHER -> IF ph = "ready" THEN ensure_started_ready(response)
                  ELSE run_hook_match(response)

\* receive_until_actionable: the match on the response read
receive_until_actionable(ph, response) ==
    CASE response.tag \in {"DEBUG", "EXPECT"} -> Continue("recv", ph, NoLine)
      [] response.tag = "FATAL" -> Continue("tb_fatal", ph, response)
      [] OTHER -> IF ph = "ready" THEN ensure_started_ready(response)
                  ELSE run_hook_match(response)

\* where the call goes after receive_one returned `response` at position p
OnResponse(p, ph, l, response) ==
    CASE p = "recv" -> receive_until_actionable(ph, response)
      [] p = "tb_fatal" -> Return(crashed_error(l, traceback_of(response)))
      [] p = "tb_error" -> Return(hook_error(l, traceback_of(response)))

\* what the public hook operation makes of run_hook's result
PublicResult(hook, result) ==
    IF result.tag = "Ok" THEN HookReturn(hook, result.value) ELSE result

\* the call moves on to position k (or returns k.result)
Goto(k) ==
    /\ phase' = k.phase
    /\ local' = k.local
    /\ closing' = 0
    /\ caller' = "none"
    /\ IF k.done
       THEN /\ hook_result' = k.result
            /\ ret' = PublicResult(op, k.result)
            /\ pc' = IF ret'.tag = "Panic" THEN "panicked" ELSE "idle"
            /\ ready_from' = 0
            /\ came_from' = "none"
       ELSE /\ pc' = k.pc
            /\ ready_from' = IF pc = "recv" /\ phase = "ready" /\ k.pc = "write"
                              THEN stdout ELSE ready_from
            /\ UNCHANGED <<hook_result, ret, came_from>>

\* how the operation `o` that returned `r` ended, as the next call sees it
HowEnded(o, r) ==
    CASE o = "none" -> "new"
      [] o = "close" -> "close"
      [] r.tag \in {"Ok", "InvalidResult"} -> "ok"
      [] r.tag = "HookError" -> "hook_error"
      [] r.tag = "Crashed" -> "crashed"
      [] r.tag = "Abandoned" -> "abandoned"
      [] OTHER -> "failed"

\* a public hook operation is called: run_hook up to the first await of
\* ensure_started
run_hook(hook) ==
    /\ pc = "idle"
    /\ op' = hook
    /\ \/ /\ IF started(handle, children)
             THEN /\ exited_seen' = 0
                  /\ spawned_by_call' = FALSE
                  /\ UNCHANGED <<handle, stdout, stdin, closed, children, spawned>>
             ELSE /\ spawned < MaxSpawns
                  /\ spawned' = spawned + 1
                  /\ handle' = spawned + 1
                  /\ closed' = closed_after_start(closed)
                  /\ stdout' = stream_after_spawn(stdout, spawned + 1)
                  /\ stdin' = stream_after_spawn(stdin, spawned + 1)
                  /\ children' = start(spawned + 1, children, conforming, {stdout', stdin'})
                  /\ exited_seen' = handle
                  /\ spawned_by_call' = TRUE
          /\ pc' = "recv" /\ phase' = "ready"
          /\ hook_result' = NoRet /\ ret' = NoRet
          /\ came_from' = HowEnded(op, ret)
       \/ \* the exit check (try_wait) or the spawn fails, `?` returns the
          \* error with no field of the daemon changed
          /\ pc' = "idle" /\ phase' = "none"
          /\ hook_result' = Err("IO") /\ ret' = Err("IO")
          /\ exited_seen' = 0 /\ spawned_by_call' = FALSE
          /\ came_from' = "none"
          /\ UNCHANGED <<handle, stdout, stdin, closed, children, spawned>>
    /\ local' = NoLine
    /\ closing' = 0 /\ caller' = "none"
    /\ ready_from' = 0
    /\ UNCHANGED <<conforming, pure>>

\* an outcome record of a command: reading it answers the command
IsOutcome(line) == line.tag \in {"OK", "ERROR", "FATAL"}

\* variant: the flag is left alone on entry to close()
closed_after_close_kept(was) == was

\* close(): the closed flag after the first statement of close()
closed_after_close(was) == TRUE

\* close(): an I/O error of try_wait or of wait_with_output on the handle
\* taken leaves close() through `?`
close_failed == [pc |-> "idle", result |-> Err("IO")]

\* variant: close() reports an exit status although it took no handle
close_taken_some(h, ch, who) ==
    IF h # 0 /\ ch[h].alive THEN [pc |-> "close_write", result |-> NoRet]
    ELSE [pc |-> "idle", result |-> [tag |-> "Ok", value |-> "Some"]]

\* close(): after `closed = true` and handle.take(), with h the handle taken
close_taken(h, ch, who) ==
    IF h = 0 THEN [pc |-> "idle", result |-> [tag |-> "Ok", value |-> "None"]]
    ELSE IF ch[h].alive THEN [pc |-> "close_write", result |-> NoRet]
    ELSE [pc |-> "idle", result |-> [tag |-> "Ok", value |-> "Some"]]

\* variant: the end of the output is reported as an empty response
close_result_empty(who, r) ==
    IF who = "eof" /\ r.tag = "Ok" THEN Err("EmptyResponse") ELSE r

\* what the caller of close() returns when close() returned r
close_result(who, r) ==
    IF who = "eof" /\ r.tag = "Ok" THEN Err("Closed") ELSE r

\* receive_one: the parent reads the next line of the child's output, or
\* its end
receive_one ==
    /\ pc \in {"recv", "tb_fatal", "tb_error"}
    /\ stdout # 0
    /\ LET c == stdout
           ch == children[c]
       IN  \/ /\ ch.out # <<>>
              /\ LET line == Head(ch.out)
                     parsed == try_from_str(line)
                 IN  /\ children' = [children EXCEPT
                            ![c].out = Tail(@),
                            ![c].unanswered = IF IsOutcome(line) /\ @ > 0 THEN @ - 1 ELSE @]
                     /\ IF parsed.ok
                        THEN Goto(OnResponse(pc, phase, local, parsed.response))
                        ELSE Goto(Return(parsed.err))
                     /\ UNCHANGED <<handle, closed>>
           \/ /\ ch.out = <<>>
              /\ ~ch.alive
              /\ closed' = closed_after_close(closed)
              /\ handle' = 0
              /\ \E fails \in BOOLEAN :
                 LET k == IF fails /\ handle # 0 THEN close_failed
                          ELSE close_taken(handle, children, "eof")
                 IN  IF k.pc = "idle"
                     THEN Goto(Return(close_result("eof", k.result)))
                     ELSE /\ pc' = k.pc
                          /\ closing' = handle
                          /\ caller' = "eof"
                          /\ UNCHANGED <<phase, local, hook_result, ret, ready_from, came_from>>
              /\ UNCHANGED children
    /\ UNCHANGED <<stdout, stdin, op, spawned, conforming, pure, exited_seen, spawned_by_call>>

\* run_hook: the command block is written to the child's stdin and flushed
write_command ==
    /\ pc = "write"
    /\ stdin # 0
    /\ IF children[stdin].alive
       THEN /\ Len(children[stdin].inbox) < MaxInbox
            /\ children' = [children EXCEPT ![stdin].inbox = Append(@, "run"),
                                            ![stdin].unanswered = IF @ < MaxUnanswered THEN @ + 1 ELSE @]
            /\ Goto(Continue("recv", "await", NoLine))
       ELSE /\ Goto(Return(Err("IO")))
            /\ UNCHANGED children
    /\ UNCHANGED <<daemon, op, spawned, conforming, pure, exited_seen, spawned_by_call>>

\* close() is called
close ==
    /\ pc = "idle"
    /\ op' = "close"
    /\ closed' = closed_after_close(closed)
    /\ handle' = 0
    /\ \E fails \in BOOLEAN :
       LET k == IF fails /\ handle # 0 THEN close_failed
                ELSE close_taken(handle, children, "api")
       IN  /\ pc' = k.pc
           /\ ret' = k.result
           /\ closing' = IF k.pc = "idle" THEN 0 ELSE handle
           /\ caller' = IF k.pc = "idle" THEN "none" ELSE "api"
    /\ phase' = "none" /\ local' = NoLine
    /\ hook_result' = NoRet
    /\ exited_seen' = 0 /\ spawned_by_call' = FALSE /\ ready_from' = 0
    /\ came_from' = "none"
    /\ UNCHANGED <<stdout, stdin, children, spawned, conforming, pure>>

\* the return of close() reaches its caller
CloseReturn(r) ==
    IF caller = "api"
    THEN /\ pc' = "idle" /\ ret' = r
         /\ closing' = 0 /\ caller' = "none"
         /\ ready_from' = 0 /\ came_from' = "none"
         /\ UNCHANGED <<phase, local, hook_result>>
    ELSE Goto(Return(close_result(caller, r)))

\* close(): the shutdown line is written to the child found running
close_write ==
    /\ pc = "close_write"
    /\ stdin # 0
    /\ IF children[stdin].alive
       THEN /\ Len(children[stdin].inbox) < MaxInbox
            /\ children' = [children EXCEPT ![stdin].inbox = Append(@, "shutdown")]
            /\ pc' = "close_wait"
            /\ UNCHANGED <<phase, local, closing, caller, hook_result, ret, ready_from, came_from>>
       ELSE /\ CloseReturn(Err("IO"))
            /\ UNCHANGED children
    /\ UNCHANGED <<daemon, op, spawned, conforming, pure, exited_seen, spawned_by_call>>

\* close(): wait_with_output returns once the child has exited, or fails
close_wait ==
    /\ pc = "close_wait"
    /\ \E fails \in BOOLEAN :
          IF fails THEN CloseReturn(close_failed.result)
          ELSE /\ ~children[closing].alive
               /\ CloseReturn([tag |-> "Ok", value |-> "Some"])
    /\ UNCHANGED <<daemon, op, children, spawned, conforming, pure, exited_seen, spawned_by_call>>

\* the future of the call in progress is dropped at an await
abandon ==
    /\ pc \in {"recv", "tb_fatal", "tb_error", "write", "close_write", "close_wait"}
    /\ pc' = "idle"
    /\ ret' = [tag |-> "Abandoned"]
    /\ phase' = "none" /\ local' = NoLine /\ closing' = 0 /\ caller' = "none"
    /\ ready_from' = 0 /\ came_from' = "none"
    /\ UNCHANGED <<daemon, op, hook_result, children, spawned, conforming, pure, exited_seen, spawned_by_call>>

\* variant: no guard, a daemon is dropped silently
drop_check_never(cl) == FALSE

\* Drop for Pep517Daemon: the condition of the panic
drop_check(cl) == ~cl

\* Drop for Pep517Daemon
drop ==
    /\ pc = "idle"
    /\ pc' = "dropped"
    /\ op' = "drop"
    /\ ret' = IF drop_check(closed) THEN [tag |-> "Panic"] ELSE [tag |-> "Dropped"]
    /\ UNCHANGED <<daemon, phase, local, closing, caller, hook_result, children,
                   spawned, conforming, pure, history>>

Next ==
    \/ \E hook \in Hooks : run_hook(hook)
    \/ receive_one
    \/ write_command
    \/ close
    \/ close_write
    \/ close_wait
    \/ abandon
    \/ drop
    \/ \E c \in ChildIds, line \in Lines : ChildEmit(c, line)
    \/ \E c \in ChildIds : ChildRead(c)
    \/ \E c \in ChildIds : ChildExit(c)

Spec == Init /\ [][Next]_vars

TypeOK ==
    /\ handle \in 0..MaxSpawns /\ stdout \in 0..MaxSpawns /\ stdin \in 0..MaxSpawns
    /\ closed \in BOOLEAN
    /\ spawned \in 0..MaxSpawns
    /\ \A c \in ChildIds : Len(children[c].out) <= MaxPipe /\ Len(children[c].inbox) <= MaxInbox


(* ================= one hook call, from arguments to result ============= *)

\* A string of the command block, as its characters: names and paths count
\* as one character each, the empty string has none.
Str(name) == <<name>>
Empty == <<>>

BuildKinds == {"Wheel", "Editable"}
\* Display for BuildKind
BuildKind_fmt(kind) == IF kind = "Wheel" THEN "wheel" ELSE "editable"

\* format!("<hook>_{}", kind) of the three public operations
hook_name(hook, kind) ==
    CASE hook = "get_requires_for_build" ->
            (IF BuildKind_fmt(kind) = "wheel" THEN "get_requires_for_build_wheel"
             ELSE "get_requires_for_build_editable")
      [] hook = "prepare_metadata_for_build" ->
            (IF BuildKind_fmt(kind) = "wheel" THEN "prepare_metadata_for_build_wheel"
             ELSE "prepare_metadata_for_build_editable")
      [] hook = "build" ->
            (IF BuildKind_fmt(kind) = "wheel" THEN "build_wheel" ELSE "build_editable")

None == [some |-> FALSE, value |-> <<>>]
Some(v) == [some |-> TRUE, value |-> v]

\* the args vector each public operation hands to run_hook
hook_args(call) ==
    CASE call.hook = "prepare_metadata_for_build" -> <<call.directory, Empty>>
      [] call.hook = "get_requires_for_build" -> <<Empty>>
      [] call.hook = "build" ->
            <<call.directory, Empty,
              IF call.metadata_directory.some THEN call.metadata_directory.value ELSE Empty>>

\* variant: nothing is pushed after the arguments
commands_no_trailing(backend, backend_path, name, args) ==
    <<Str("run"), Str(backend)>>
        \o (IF backend_path.some THEN backend_path.value ELSE <<>>)
        \o <<Empty>> \o <<Str(name)>> \o args

\* run_hook: the commands vector
commands(backend, backend_path, name, args) ==
    <<Str("run"), Str(backend)>>
        \o (IF backend_path.some THEN backend_path.value ELSE <<>>)
        \o <<Empty>> \o <<Str(name)>> \o args \o <<Empty>>

RECURSIVE join(_)
\* commands.join("\n")
join(cmds) ==
    IF cmds = <<>> THEN <<>>
    ELSE IF Len(cmds) = 1 THEN cmds[1]
         ELSE cmds[1] \o <<NL>> \o join(Tail(cmds))

\* the bytes run_hook writes to the child's stdin for a call
command_bytes(call) ==
    join(commands(call.backend, call.backend_path,
                  hook_name(call.hook, call.kind), hook_args(call)))

\* -- the calls and the OK payloads followed

RECURSIVE SeqsUpTo(_, _)
\* the sequences over S of length at most n
SeqsUpTo(S, n) ==
    IF n = 0 THEN {<<>>}
    ELSE LET shorter == SeqsUpTo(S, n - 1)
         IN  shorter \cup {Append(q, x) : q \in shorter, x \in S}

PathNames == {Str("p"), Str("q")}
BackendPaths == {None} \cup {Some(ps) : ps \in SeqsUpTo(PathNames, MaxPaths)}
Directories == {Str("/tmp/out"), Empty}

Call(hook, kind, backend_path, directory, metadata_directory) ==
    [hook |-> hook, kind |-> kind, backend |-> "backend.mod",
     backend_path |-> backend_path, directory |-> directory,
     metadata_directory |-> metadata_directory]

Calls ==
    {Call("get_requires_for_build", k, bp, Empty, None) :
        k \in BuildKinds, bp \in BackendPaths}
    \cup {Call("prepare_metadata_for_build", k, bp, d, None) :
        k \in BuildKinds, bp \in BackendPaths, d \in Directories}
    \cup {Call("build", k, bp, d, md) :
        k \in BuildKinds, bp \in BackendPaths, d \in Directories,
        md \in {None, Some(Str("m"))}}

\* an element of the list in an OK payload: its text, in single quotes or bare
ElemTexts == {<<>>, <<"w">>, <<"s", ">", "4">>, <<"b", " ", "r">>, <<"a", ",", " ", "c">>}
Elems == {e \in [quoted : BOOLEAN, text : ElemTexts] : e.quoted \/ e.text # <<>>}
ElemSeqs == SeqsUpTo(Elems, MaxElems)

RenderElem(e) == IF e.quoted THEN <<"'">> \o e.text \o <<"'">> ELSE e.text
RECURSIVE RenderElems(_)
RenderElems(es) ==
    IF es = <<>> THEN <<>>
    ELSE IF Len(es) = 1 THEN RenderElem(es[1])
         ELSE RenderElem(es[1]) \o <<",", " ">> \o RenderElems(Tail(es))
\* the text of a list as the child prints it
Render(es) == <<"[">> \o RenderElems(es) \o <<"]">>

\* the OK payloads a call may be answered with
Payloads(hook) ==
    IF hook = "get_requires_for_build"
    THEN {Render(es) : es \in ElemSeqs} \cup {<<"f">>}
    ELSE {<<>>, <<"f">>}

HookInit ==
    /\ Pep517Daemon_new
    /\ conforming = TRUE
    /\ input \in Calls
    /\ output = NoRet

\* run_hook: the command block of the call is written
run_hook_write ==
    /\ output = NoRet
    /\ output' = [tag |-> "Written", bytes |-> command_bytes(input)]
    /\ UNCHANGED <<daemon, frame, hook_result, ret, children, spawned, conforming,
                   history, input>>

\* run_hook reads OK(payload) and the public operation returns
run_hook_ok(payload) ==
    /\ output.tag = "Written"
    /\ output' = [tag |-> "Returned", bytes |-> output.bytes, payload |-> payload,
                  value |-> HookReturn(input.hook, payload)]
    /\ UNCHANGED <<daemon, frame, hook_result, ret, children, spawned, conforming,
                   history, input>>

HookNext ==
    \/ run_hook_write
    \/ \E payload \in Payloads(input.hook) : run_hook_ok(payload)

HookSpec == HookInit /\ [][HookNext]_vars

(* ============== one hook call, record by record of the output ========== *)

\* the records a child's output is made of here, one or two of each keyword
\* a hook call reads
StreamLines ==
    {ReadyLine} \cup AdvisoryLines \cup OutputLines \cup {Line("OK", "", <<"f">>)}
    \cup ErrorLines \cup FatalLines \cup TracebackLines

StreamInit ==
    /\ Pep517Daemon_new
    /\ conforming = FALSE
    /\ input \in [records : SeqsUpTo(StreamLines, MaxRecords)]
    /\ output = NoRet

stream_unchanged ==
    <<daemon, op, closing, caller, hook_result, ret, children, spawned, conforming, history, input>>

\* run_hook on a new daemon: the child is spawned and its output, the
\* records of input followed by the end of the output, is read from the start
stream_run_hook ==
    /\ pc = "idle" /\ output = NoRet
    /\ pc' = "recv" /\ phase' = "ready" /\ local' = NoLine
    /\ output' = [tag |-> "Reading", rest |-> input.records]
    /\ UNCHANGED stream_unchanged

\* receive_one and what its caller does with the response: the next record
\* is read, or the end of the output, at which close() runs and either
\* fails or makes the call fail with Closed
stream_receive_one ==
    /\ pc \in {"recv", "tb_fatal", "tb_error"}
    /\ output.tag = "Reading"
    /\ IF output.rest = <<>>
       THEN /\ \E fails \in BOOLEAN :
                 output' = [tag |-> "Returned", eof |-> TRUE,
                            result |-> close_result("eof",
                                IF fails THEN close_failed.result
                                ELSE [tag |-> "Ok", value |-> "Some"])]
            /\ pc' = "idle" /\ phase' = "none" /\ local' = NoLine
       ELSE LET parsed == try_from_str(Head(output.rest))
                k == IF parsed.ok THEN OnResponse(pc, phase, local, parsed.response)
                     ELSE Return(parsed.err)
            IN  /\ pc' = k.pc /\ phase' = k.phase /\ local' = k.local
                /\ output' = IF k.done
                             THEN [tag |-> "Returned", eof |-> FALSE, result |-> k.result]
                             ELSE [tag |-> "Reading", rest |-> Tail(output.rest)]
    /\ UNCHANGED stream_unchanged

\* run_hook: the command block is written to the running child
stream_write_command ==
    /\ pc = "write"
    /\ output.tag = "Reading"
    /\ pc' = Continue("recv", "await", NoLine).pc
    /\ phase' = Continue("recv", "await", NoLine).phase
    /\ local' = Continue("recv", "await", NoLine).local
    /\ UNCHANGED <<stream_unchanged, output>>

StreamNext == stream_run_hook \/ stream_receive_one \/ stream_write_command

StreamSpec == StreamInit /\ [][StreamNext]_vars

(* ============ one hook call on a child that may never finish =========== *)

\* what the child does once it has written its records: it closes its
\* output, keeps it open and writes nothing, or keeps writing DEBUG or
\* STDOUT records
Tails == {"eof", "silent", "DEBUG", "STDOUT"}
TailLine(tail) ==
    IF tail = "STDOUT" THEN Line("STDOUT", "", <<"p">>) ELSE Line("DEBUG", "", <<>>)

AwaitInit ==
    /\ Pep517Daemon_new
    /\ conforming = FALSE
    /\ input \in [records : SeqsUpTo(StreamLines, MaxAwaited), tail : Tails]
    /\ output = NoRet

\* receive_one: the next record of the child, or, past its last record, what
\* the child goes on with; on a silent child next_line() does not return
await_receive_one ==
    IF output.tag = "Reading" /\ output.rest = <<>> /\ input.tail # "eof"
    THEN /\ pc \in {"recv", "tb_fatal", "tb_error"}
         /\ input.tail # "silent"
         /\ LET parsed == try_from_str(TailLine(input.tail))
                k == IF parsed.ok THEN OnResponse(pc, phase, local, parsed.response)
                     ELSE Return(parsed.err)
            IN  /\ pc' = k.pc /\ phase' = k.phase /\ local' = k.local
                /\ output' = IF k.done
                             THEN [tag |-> "Returned", eof |-> FALSE, result |-> k.result]
                             ELSE output
         /\ UNCHANGED stream_unchanged
    ELSE stream_receive_one

AwaitNext == stream_run_hook \/ await_receive_one \/ stream_write_command

\* the parent's task is polled whenever it can make a step: a record or the
\* end of the output is there to read, or the command can be written
AwaitSpec == AwaitInit /\ [][AwaitNext]_vars /\ WF_vars(AwaitNext)

(* ===================== one line, character by character ================ *)

\* A raw line is a sequence of characters.  A keyword or a kind name counts
\* as one character, " " is the blank, ESC the two characters backslash-n.
\* A line as next_line() returns it holds no real newline.

RECURSIVE splitn_all(_, _)
\* variant: split(' '), every blank separates
splitn_all(n, line) ==
    LET blanks == {i \in 1..Len(line) : line[i] = " "}
    IN  IF blanks = {} THEN <<line>>
        ELSE LET i == CHOOSE j \in blanks : \A k \in blanks : j <= k
             IN  <<SubSeq(line, 1, i - 1)>> \o splitn_all(n, SubSeq(line, i + 1, Len(line)))

RECURSIVE splitn(_, _)
\* line.splitn(n, ' '): at most n pieces, the last one the rest of the line
splitn(n, line) ==
    LET blanks == {i \in 1..Len(line) : line[i] = " "}
    IN  IF n <= 1 \/ blanks = {} THEN <<line>>
        ELSE LET i == CHOOSE j \in blanks : \A k \in blanks : j <= k
             IN  <<SubSeq(line, 1, i - 1)>> \o splitn(n - 1, SubSeq(line, i + 1, Len(line)))

RECURSIVE join_blank(_)
\* parts.collect::<Vec<&str>>().join(" ")
join_blank(parts) ==
    IF parts = <<>> THEN <<>>
    ELSE IF Len(parts) = 1 THEN parts[1]
         ELSE parts[1] \o <<" ">> \o join_blank(Tail(parts))

\* parts.next(): the piece, if there is one, and the pieces left
next(parts) ==
    IF parts = <<>> THEN [some |-> FALSE, value |-> <<>>, rest |-> <<>>]
    ELSE [some |-> TRUE, value |-> Head(parts), rest |-> Tail(parts)]

HookErrorKinds ==
    {"MissingBackendModule", "MissingBackendAttribute", "MalformedBackendName",
     "BackendImportError", "InvalidHookName", "InvalidAction", "UnsupportedHook",
     "MalformedHookArgument", "HookRuntimeError"}

\* variant: a name that is not known is taken for HookRuntimeError
HookErrorKind_of_any(name) ==
    IF Len(name) = 1 /\ name[1] \in HookErrorKinds
    THEN [ok |-> TRUE, kind |-> name[1]]
    ELSE [ok |-> TRUE, kind |-> "HookRuntimeError"]

\* HookErrorKind::try_from_str on the characters of a name
HookErrorKind_of(name) ==
    IF Len(name) = 1 /\ name[1] \in HookErrorKinds
    THEN [ok |-> TRUE, kind |-> name[1]]
    ELSE [ok |-> FALSE, err |-> [tag |-> "UnknownErrorKind", text |-> name]]

Response(response) == [outcome |-> "Ok", response |-> response]
Failure(err) == [outcome |-> "Err", err |-> err]
\* Option::unwrap on None
Panicked == [outcome |-> "Panic"]

\* DaemonResponse::try_from_str on a raw line
DaemonResponse_try_from_str(line) ==
    LET parts == splitn(3, line)
        first == next(parts)
        second == next(first.rest)
        third == next(second.rest)
        kind == first.value
    IN  IF ~first.some THEN Failure([tag |-> "EmptyResponse"])
        ELSE
        CASE kind = <<"DEBUG">> -> Response([tag |-> "DEBUG", text |-> join_blank(first.rest)])
          [] kind = <<"EXPECT">> -> Response([tag |-> "EXPECT", text |-> join_blank(first.rest)])
          [] kind = <<"OK">> -> Response([tag |-> "OK", text |-> join_blank(first.rest)])
          [] kind = <<"TRACEBACK">> ->
                Response([tag |-> "TRACEBACK",
                        text |-> CollapseNL(ReplaceEsc(join_blank(first.rest)))])
          [] kind = <<"ERROR">> ->
                IF ~second.some THEN Panicked
                ELSE IF ~HookErrorKind_of(second.value).ok
                     THEN Failure(HookErrorKind_of(second.value).err)
                     ELSE Response([tag |-> "ERROR", kind |-> HookErrorKind_of(second.value).kind,
                                  text |-> join_blank(second.rest)])
          [] kind = <<"STDOUT">> ->
                IF ~second.some THEN Panicked
                ELSE Response([tag |-> "STDOUT", path |-> second.value])
          [] kind = <<"STDERR">> ->
                IF ~second.some THEN Panicked
                ELSE Response([tag |-> "STDERR", path |-> second.value])
          [] kind = <<"READY">> -> Response([tag |-> "READY"])
          [] kind = <<"FATAL">> ->
                IF ~second.some THEN Panicked
                ELSE IF ~third.some THEN Panicked
                ELSE Response([tag |-> "FATAL", kind |-> second.value, text |-> third.value])
          [] kind = <<"SHUTDOWN">> -> Response([tag |-> "SHUTDOWN"])
          [] OTHER -> Failure([tag |-> "UnknownResponse", line |-> line])

\* -- the lines followed

\* the tokens lines are put together from: the empty token (two blanks in a
\* row), keywords, a known kind, a word, and runs of newline escapes
Tokens ==
    {<<>>, <<"ERROR">>, <<"FATAL">>, <<"STDOUT">>, <<"TRACEBACK">>,
     <<"HookRuntimeError">>, <<"x">>, <<ESC, ESC>>, <<ESC, ESC, ESC>>,
     <<ESC, ESC, ESC, ESC, ESC>>}

RawLines == {join_blank(tokens) : tokens \in SeqsUpTo(Tokens, MaxTokens)}

ParseInit ==
    /\ Pep517Daemon_new
    /\ conforming = FALSE
    /\ input \in [line : RawLines]
    /\ output = NoRet

\* receive_one hands the line read to DaemonResponse::try_from_str
parse_line ==
    /\ output = NoRet
    /\ output' = [tag |-> "Parsed", result |-> DaemonResponse_try_from_str(input.line)]
    /\ UNCHANGED <<daemon, frame, hook_result, ret, children, spawned, conforming, history, input>>

ParseNext == parse_line

ParseSpec == ParseInit /\ [][ParseNext]_vars

(* ========================= the hash strategy =========================== *)
(* crates/uv-types/src/hash.rs                                             *)

PackageNames == {"albatross", "walrus"}
Urls == {"u", "v"}

\* PackageId::from_registry / PackageId::from_url
from_registry(name) == [variant |-> "Registry", key |-> name]
from_url(url) == [variant |-> "Url", key |-> url]
PackageIds == {from_registry(n) : n \in PackageNames} \cup {from_url(u) : u \in Urls}

\* a distribution, as far as DistributionMetadata::package_id() shows it
Distributions == [package_id : PackageIds]

\* a digest as written, ALGO:HEX, and HashDigest::from_str on it
DigestTexts == {<<"sha256", "a">>, <<"sha256", "b">>, <<"crc", "a">>}
HashDigest_from_str(text) ==
    IF text[1] \in {"md5", "sha256", "sha384", "sha512"}
    THEN [ok |-> TRUE, value |-> [algorithm |-> text[1], hex |-> text[2]]]
    ELSE [ok |-> FALSE, err |-> [tag |-> "Hash", digest |-> text]]
HashDigests == {HashDigest_from_str(t).value : t \in {d \in DigestTexts : HashDigest_from_str(d).ok}}

\* HashPolicy
HashPolicy_None == [tag |-> "None"]
HashPolicy_Generate == [tag |-> "Generate"]
HashPolicy_Validate(hashes) == [tag |-> "Validate", hashes |-> hashes]

\* HashStrategy
HashStrategy_None == [tag |-> "None", hashes |-> <<>>]
HashStrategy_Generate == [tag |-> "Generate", hashes |-> <<>>]
HashStrategy_Verify(hashes) == [tag |-> "Verify", hashes |-> hashes]
HashStrategy_Require(hashes) == [tag |-> "Require", hashes |-> hashes]

\* FxHashMap::default / insert
EmptyMap == [id \in {} |-> <<>>]
insert(hashes, id, digests) ==
    [k \in (DOMAIN hashes) \cup {id} |-> IF k = id THEN digests ELSE hashes[k]]

\* variant: Require answers an absent identity as Verify does
get_absent_none(strategy, distribution) ==
    CASE strategy.tag = "None" -> HashPolicy_None
      [] strategy.tag = "Generate" -> HashPolicy_Generate
      [] strategy.tag \in {"Verify", "Require"} ->
            IF distribution.package_id \in DOMAIN strategy.hashes
            THEN HashPolicy_Validate(strategy.hashes[distribution.package_id])
            ELSE HashPolicy_None

\* HashStrategy::get
get(strategy, distribution) ==
    CASE strategy.tag = "None" -> HashPolicy_None
      [] strategy.tag = "Generate" -> HashPolicy_Generate
      [] strategy.tag = "Verify" ->
            IF distribution.package_id \in DOMAIN strategy.hashes
            THEN HashPolicy_Validate(strategy.hashes[distribution.package_id])
            ELSE HashPolicy_None
      [] strategy.tag = "Require" ->
            HashPolicy_Validate(IF distribution.package_id \in DOMAIN strategy.hashes
                                THEN strategy.hashes[distribution.package_id] ELSE <<>>)

\* variant: Verify answers an absent identity as Require does
get_package_absent_empty(strategy, name) ==
    CASE strategy.tag = "None" -> HashPolicy_None
      [] strategy.tag = "Generate" -> HashPolicy_Generate
      [] strategy.tag \in {"Verify", "Require"} ->
            HashPolicy_Validate(IF from_registry(name) \in DOMAIN strategy.hashes
                                THEN strategy.hashes[from_registry(name)] ELSE <<>>)

\* HashStrategy::get_package
get_package(strategy, name) ==
    CASE strategy.tag = "None" -> HashPolicy_None
      [] strategy.tag = "Generate" -> HashPolicy_Generate
      [] strategy.tag = "Verify" ->
            IF from_registry(name) \in DOMAIN strategy.hashes
            THEN HashPolicy_Validate(strategy.hashes[from_registry(name)])
            ELSE HashPolicy_None
      [] strategy.tag = "Require" ->
            HashPolicy_Validate(IF from_registry(name) \in DOMAIN strategy.hashes
                                THEN strategy.hashes[from_registry(name)] ELSE <<>>)

\* HashStrategy::get_url
get_url(strategy, url) ==
    CASE strategy.tag = "None" -> HashPolicy_None
      [] strategy.tag = "Generate" -> HashPolicy_Generate
      [] strategy.tag = "Verify" ->
            IF from_url(url) \in DOMAIN strategy.hashes
            THEN HashPolicy_Validate(strategy.hashes[from_url(url)])
            ELSE HashPolicy_None
      [] strategy.tag = "Require" ->
            HashPolicy_Validate(IF from_url(url) \in DOMAIN strategy.hashes
                                THEN strategy.hashes[from_url(url)] ELSE <<>>)

\* variant: Verify denies what its map does not hold, as Require does
allows_package_verify_denies(strategy, name) ==
    CASE strategy.tag \in {"None", "Generate"} -> TRUE
      [] strategy.tag \in {"Verify", "Require"} -> from_registry(name) \in DOMAIN strategy.hashes

\* HashStrategy::allows_package
allows_package(strategy, name) ==
    CASE strategy.tag \in {"None", "Generate", "Verify"} -> TRUE
      [] strategy.tag = "Require" -> from_registry(name) \in DOMAIN strategy.hashes

\* HashStrategy::allows_url
allows_url(strategy, url) ==
    CASE strategy.tag \in {"None", "Generate", "Verify"} -> TRUE
      [] strategy.tag = "Require" -> from_url(url) \in DOMAIN strategy.hashes

\* -- requirements

\* the version specifiers of a registry requirement, by operator
SpecifierLists == {<<>>, <<"Equal">>, <<"GreaterThanEqual">>, <<"Equal", "Equal">>}

\* RequirementSource
RequirementSources ==
    [variant : {"Registry"}, specifier : SpecifierLists, url : {"none"}]
    \cup [variant : {"Url", "Git", "Path"}, specifier : {<<>>}, url : {"u"}]

\* UnresolvedRequirement::Named(Requirement { name, source }) and
\* UnresolvedRequirement::Unnamed(requirement) with requirement.url.verbatim
Named(name, source) == [form |-> "Named", name |-> name, source |-> source, url |-> "none"]
Unnamed(url) ==
    [form |-> "Unnamed", name |-> "none",
     source |-> [variant |-> "Url", specifier |-> <<>>, url |-> url], url |-> url]
Requirements ==
    {Named("albatross", src) : src \in RequirementSources} \cup {Unnamed("u")}

\* the digests listed with a requirement
DigestLists == {<<>>, << <<"sha256", "a">> >>, << <<"sha256", "b">> >>, << <<"crc", "a">> >>}

\* one item of the iterator handed to require / verify: the requirement,
\* what its markers evaluate to in the environment given, and its digests
Entries == [requirement : Requirements, markers : BOOLEAN, digests : DigestLists]

\* requirement.evaluate_markers(markers, &[])
evaluate_markers(entry) == entry.markers

\* variant: only the first specifier is looked at
pin_first_specifier(requirement) ==
    IF requirement.source.variant = "Registry"
    THEN IF requirement.source.specifier = <<>> THEN [some |-> FALSE, value |-> <<>>]
         ELSE IF requirement.source.specifier[1] # "Equal" THEN [some |-> FALSE, value |-> <<>>]
         ELSE [some |-> TRUE, value |-> from_registry(requirement.name)]
    ELSE [some |-> TRUE, value |-> from_url(requirement.source.url)]

\* HashStrategy::pin
pin(requirement) ==
    IF requirement.source.variant = "Registry"
    THEN IF Len(requirement.source.specifier) # 1 THEN [some |-> FALSE, value |-> <<>>]
         ELSE IF requirement.source.specifier[1] # "Equal" THEN [some |-> FALSE, value |-> <<>>]
         ELSE [some |-> TRUE, value |-> from_registry(requirement.name)]
    ELSE [some |-> TRUE, value |-> from_url(requirement.source.url)]

\* variant: a requirement that does not pin goes by its name
requirement_id_by_name(requirement, mode) ==
    IF requirement.form = "Named"
    THEN IF pin(requirement).some
         THEN [ok |-> TRUE, value |-> pin(requirement).value]
         ELSE [ok |-> TRUE, value |-> from_registry(requirement.name)]
    ELSE [ok |-> TRUE, value |-> from_url(requirement.url)]

\* require / verify: the identity of a requirement, or UnpinnedRequirement
requirement_id(requirement, mode) ==
    IF requirement.form = "Named"
    THEN IF pin(requirement).some
         THEN [ok |-> TRUE, value |-> pin(requirement).value]
         ELSE [ok |-> FALSE,
               err |-> [tag |-> "UnpinnedRequirement", requirement |-> requirement, mode |-> mode]]
    ELSE [ok |-> TRUE, value |-> from_url(requirement.url)]

RECURSIVE parse_digests_lenient(_)
\* variant: a digest that does not parse is left out
parse_digests_lenient(digests) ==
    IF digests = <<>> THEN [ok |-> TRUE, value |-> <<>>]
    ELSE LET first == HashDigest_from_str(Head(digests))
             rest == parse_digests_lenient(Tail(digests))
         IN  [ok |-> TRUE,
              value |-> (IF first.ok THEN <<first.value>> ELSE <<>>) \o rest.value]

RECURSIVE parse_digests(_)
\* digests.iter().map(HashDigest::from_str).collect::<Result<Vec<_>, _>>()
parse_digests(digests) ==
    IF digests = <<>> THEN [ok |-> TRUE, value |-> <<>>]
    ELSE LET first == HashDigest_from_str(Head(digests))
             rest == parse_digests(Tail(digests))
         IN  IF ~first.ok THEN first
             ELSE IF ~rest.ok THEN rest
             ELSE [ok |-> TRUE, value |-> <<first.value>> \o rest.value]

\* variant: the marker test is missing
skipped_never(entry) == FALSE

\* require / verify: the entry is passed over for its markers
skipped(entry) == ~evaluate_markers(entry)

Ok(value) == [ok |-> TRUE, value |-> value]

\* variant: a digest list already stored for the identity is extended
stored_merged(hashes, id, digests) ==
    insert(hashes, id, IF id \in DOMAIN hashes THEN hashes[id] \o digests ELSE digests)

\* require / verify: hashes.insert(id, digests)
stored(hashes, id, digests) == insert(hashes, id, digests)

RECURSIVE require_loop(_, _)
\* HashStrategy::require: the loop over the requirements left, hashes being
\* the map built so far
require_loop(requirements, hashes) ==
    IF requirements = <<>> THEN Ok(HashStrategy_Require(hashes))
    ELSE LET entry == Head(requirements)
             id == requirement_id(entry.requirement, "Require")
             digests == parse_digests(entry.digests)
         IN  IF skipped(entry) THEN require_loop(Tail(requirements), hashes)
             ELSE IF ~id.ok THEN id
             ELSE IF entry.digests = <<>>
                  THEN [ok |-> FALSE,
                        err |-> [tag |-> "MissingHashes", requirement |-> entry.requirement,
                                 mode |-> "Require"]]
             ELSE IF ~digests.ok THEN digests
             ELSE require_loop(Tail(requirements), stored(hashes, id.value, digests.value))

\* HashStrategy::require
require(requirements) == require_loop(requirements, EmptyMap)

RECURSIVE verify_loop(_, _)
\* variant: the identity is worked out before the digests are parsed
verify_loop_pin_first(requirements, hashes) ==
    IF requirements = <<>> THEN Ok(HashStrategy_Verify(hashes))
    ELSE LET entry == Head(requirements)
             id == requirement_id(entry.requirement, "Verify")
             digests == parse_digests(entry.digests)
         IN  IF skipped(entry) THEN verify_loop(Tail(requirements), hashes)
             ELSE IF entry.digests = <<>> THEN verify_loop(Tail(requirements), hashes)
             ELSE IF ~id.ok THEN id
             ELSE IF ~digests.ok THEN digests
             ELSE verify_loop(Tail(requirements), stored(hashes, id.value, digests.value))

\* HashStrategy::verify: the loop over the requirements left
verify_loop(requirements, hashes) ==
    IF requirements = <<>> THEN Ok(HashStrategy_Verify(hashes))
    ELSE LET entry == Head(requirements)
             id == requirement_id(entry.requirement, "Verify")
             digests == parse_digests(entry.digests)
         IN  IF skipped(entry) THEN verify_loop(Tail(requirements), hashes)
             ELSE IF entry.digests = <<>> THEN verify_loop(Tail(requirements), hashes)
             ELSE IF ~digests.ok THEN digests
             ELSE IF ~id.ok THEN id
             ELSE verify_loop(Tail(requirements), stored(hashes, id.value, digests.value))

\* HashStrategy::verify
verify(requirements) == verify_loop(requirements, EmptyMap)

\* -- the strategies followed

\* strategies written down directly, variant by variant
DigestVecs == {<<>>} \cup {<<d>> : d \in HashDigests} \cup {<<d, e>> : d, e \in HashDigests}
MapKeys == {from_registry("albatross"), from_url("u")}
Maps == UNION {[ids -> DigestVecs] : ids \in SUBSET MapKeys}
Strategies ==
    {HashStrategy_None, HashStrategy_Generate}
    \cup {HashStrategy_Verify(m) : m \in Maps} \cup {HashStrategy_Require(m) : m \in Maps}

HashInputs ==
    [from : {"variant"}, strategy : Strategies]
    \cup [from : {"require", "verify"}, requirements : SeqsUpTo(Entries, MaxReqs)]
    \cup [from : {"pin"}, requirement : {r \in Requirements : r.form = "Named"}]

HashInit ==
    /\ Pep517Daemon_new
    /\ conforming = TRUE
    /\ input \in HashInputs
    /\ output = NoRet

hash_unchanged == <<daemon, frame, hook_result, ret, children, spawned, conforming, history, input>>

\* HashStrategy::require is called on the requirements
HashStrategy_require ==
    /\ output = NoRet /\ input.from = "require"
    /\ output' = [tag |-> "Constructed", result |-> require(input.requirements)]
    /\ UNCHANGED hash_unchanged

\* HashStrategy::verify is called on the requirements
HashStrategy_verify ==
    /\ output = NoRet /\ input.from = "verify"
    /\ output' = [tag |-> "Constructed", result |-> verify(input.requirements)]
    /\ UNCHANGED hash_unchanged

\* the strategy is asked about a distribution, a name and a URL
HashStrategy_ask(distribution, name, url) ==
    /\ output = NoRet /\ input.from = "variant"
    /\ output' = [tag |-> "Asked",
                  distribution |-> distribution, name |-> name, url |-> url,
                  get |-> get(input.strategy, distribution),
                  get_package |-> get_package(input.strategy, name),
                  get_url |-> get_url(input.strategy, url),
                  allows_package |-> allows_package(input.strategy, name),
                  allows_url |-> allows_url(input.strategy, url)]
    /\ UNCHANGED hash_unchanged

\* HashStrategy::pin is called on a named requirement
HashStrategy_pin ==
    /\ output = NoRet /\ input.from = "pin"
    /\ output' = [tag |-> "Pinned", id |-> pin(input.requirement)]
    /\ UNCHANGED hash_unchanged

HashNext ==
    \/ HashStrategy_require
    \/ HashStrategy_verify
    \/ HashStrategy_pin
    \/ \E d \in Distributions, n \in PackageNames, u \in Urls : HashStrategy_ask(d, n, u)

HashSpec == HashInit /\ [][HashNext]_vars

(* ======================= properties of the daemon ====================== *)

\* a step in which the parent consumes the next line of the child's output
ReadStep ==
    /\ pc \in {"recv", "tb_fatal", "tb_error"}
    /\ stdout # 0
    /\ children[stdout].out # <<>>
    /\ children'[stdout].out = Tail(children[stdout].out)
\* the line such a step consumes
NextLine == Head(children[stdout].out)
\* a step that enters a public hook operation
HookEntry == pc = "idle" /\ pc' = "recv"
\* the exit check of ensure_started would find a running child
Running == handle # 0 /\ children[handle].alive

(* ------------------------------- C1 ------------------------------------ *)

C2_LazySingleSpawn ==
    /\ [](op = "none" => spawned = 0 /\ handle = 0 /\ stdout = 0 /\ stdin = 0)
    /\ [][ /\ (spawned' # spawned =>
                 /\ HookEntry /\ ~Running
                 /\ spawned' = spawned + 1 /\ handle' = spawned')
           /\ (HookEntry /\ spawned = 0 => spawned' = 1 /\ handle' = 1)
           /\ (HookEntry /\ Running =>
                 /\ handle' = handle /\ stdout' = stdout /\ stdin' = stdin
                 /\ spawned' = spawned)
           /\ (handle' # handle /\ spawned' = spawned =>
                 /\ handle' = 0
                 /\ (op' = "close" \/ ~children[handle].alive)) ]_vars

\* a second hook call has written its command to the one child spawned so far
C2_Witness ==
    /\ came_from = "ok" /\ pc = "recv" /\ phase = "await"
    /\ spawned = 1 /\ handle = 1 /\ ~spawned_by_call

(* ------------------------------- C3 ------------------------------------ *)

\* C3: a hook call that finds the child it holds exited spawns a fresh
\* child and takes its handle and both its streams, then waits for READY;
\* whenever a command block is about to be written, the ready check was
\* passed on the output of the very child that is written to, and that
\* child is not the one the exit check found exited.
C3_RespawnBeforeWrite ==
    /\ [][ (HookEntry /\ handle # 0 /\ ~children[handle].alive) =>
              /\ spawned' = spawned + 1
              /\ handle' = spawned' /\ stdout' = spawned' /\ stdin' = spawned'
              /\ children'[handle'].alive /\ children'[handle'].out = <<>>
              /\ exited_seen' = handle
              /\ phase' = "ready" ]_vars
    /\ [](pc = "write" =>
              /\ stdin # 0 /\ stdin = handle /\ stdin = stdout
              /\ ready_from = stdin
              /\ (exited_seen # 0 => stdin # exited_seen))

\* the call found its child exited, respawned, read READY and is about to
\* write its command
C3_Witness == pc = "write" /\ exited_seen # 0 /\ stdin = spawned


(* ------------------------------- C4 ------------------------------------ *)

\* the call in progress returns to its caller in this step
Returns == pc \notin {"idle", "panicked", "dropped"} /\ pc' \in {"idle", "panicked"}
                /\ ret'.tag # "Abandoned"

\* what C4, C5 and C6 agree on for a step that reads a line while the
\* outcome of the command is awaited
C4_Decided ==
    (ReadStep /\ pc = "recv" /\ phase = "await") =>
        CASE NextLine.tag \in {"STDOUT", "STDERR", "DEBUG", "EXPECT"} ->
                pc' = "recv" /\ phase' = "await" /\ hook_result' = NoRet
          [] NextLine.tag = "OK" ->
                /\ Returns
                /\ hook_result' = [tag |-> "Ok", value |-> NextLine.b]
                /\ (op = "build" => ret' = [tag |-> "Ok", value |-> NextLine.b])
          [] NextLine.tag = "ERROR" ->
                pc' = "tb_error" /\ hook_result' = NoRet
          [] NextLine.tag \in {"READY", "TRACEBACK", "SHUTDOWN"} ->
                /\ Returns
                /\ hook_result'.tag = "UnexpectedResponse"
                /\ hook_result'.response.tag = NextLine.tag
                /\ hook_result'.response.b = DecodeTraceback(NextLine.b)
                /\ ret' = hook_result'
          [] OTHER -> TRUE

C7_Original ==
    [][ (conforming /\ pc = "idle" /\ op \in Hooks /\ ret.tag = "Crashed" /\ HookEntry) =>
            spawned' = spawned + 1 /\ handle' # handle ]_vars

(* ------------------------------- C8 ------------------------------------ *)

\* C8: in the ready wait DEBUG and EXPECT are drained, READY lets the call
\* go on to write its command, and any of OK, ERROR, TRACEBACK, STDOUT,
\* STDERR, SHUTDOWN makes the call fail with NotReady with nothing written
\* to the child; a run command is only ever written by a call whose ready
\* check read READY from the child written to.
C8_NotReady ==
    [][ /\ (ReadStep /\ pc = "recv" /\ phase = "ready" =>
              CASE NextLine.tag \in {"DEBUG", "EXPECT"} ->
                      pc' = "recv" /\ phase' = "ready" /\ ret' = NoRet
                [] NextLine.tag = "READY" ->
                      pc' = "write" /\ ret' = NoRet
                [] NextLine.tag \in {"OK", "ERROR", "TRACEBACK", "STDOUT", "STDERR", "SHUTDOWN"} ->
                      /\ Returns
                      /\ hook_result' = [tag |-> "NotReady"]
                      /\ ret' = [tag |-> "NotReady"]
                      /\ \A c \in ChildIds : children'[c].inbox = children[c].inbox
                [] OTHER -> TRUE)
        /\ \A c \in ChildIds :
              (Len(children'[c].inbox) > Len(children[c].inbox)
                 /\ children'[c].inbox[Len(children'[c].inbox)] = "run") =>
                    pc = "write" /\ c = stdin /\ ready_from = c ]_vars

\* the call that spawned the child failed with NotReady and the child has
\* been sent nothing
C8_Witness ==
    /\ pc = "idle" /\ ret.tag = "NotReady" /\ spawned_by_call
    /\ handle # 0 /\ children[handle].alive
    /\ children[handle].inbox = <<>> /\ children[handle].unanswered = 0

(* ------------------------------- C9 ------------------------------------ *)

NotAdvisory(line) == line.tag \notin {"DEBUG", "EXPECT"}
\* the next actionable record the parent reads from child c, if it reads
\* one, is READY
NextActionableIsReady(c) ==
    LET actionable == SelectSeq(children[c].out, NotAdvisory)
    IN  IF actionable # <<>> THEN Head(actionable) = ReadyLine
        ELSE children[c].alive => children[c].phase = "done"

\* C9: with children that follow the wire protocol, whenever a hook call
\* has returned with OK or with HookError the next actionable record still
\* to be read from the child held is READY, and the next hook call on that
\* child, if it finds it running, spawns nothing and passes the ready check
\* on the first actionable record it reads.
C9_IdleIsReady ==
    /\ [](conforming /\ pc = "idle" /\ op \in Hooks
            /\ hook_result.tag \in {"Ok", "HookError"} /\ ret.tag # "Abandoned" =>
               handle # 0 /\ stdout = handle /\ NextActionableIsReady(handle))
    /\ [][ /\ (conforming /\ pc = "idle" /\ op \in Hooks
                 /\ hook_result.tag \in {"Ok", "HookError"} /\ ret.tag # "Abandoned"
                 /\ HookEntry /\ Running =>
                    spawned' = spawned /\ handle' = handle /\ stdout' = handle
                    /\ came_from' \in {"ok", "hook_error"})
           /\ (conforming /\ came_from \in {"ok", "hook_error"} /\ ~spawned_by_call
                 /\ ReadStep /\ pc = "recv" /\ phase = "ready" /\ NotAdvisory(NextLine) =>
                    pc' = "write") ]_vars

\* after a HookError the next call passed the ready check on the same child
C9_Witness ==
    /\ conforming /\ came_from = "hook_error" /\ ~spawned_by_call
    /\ pc = "write" /\ spawned = 1

(* ------------------------------- C10 ----------------------------------- *)

\* C10 as stated: after close() no hook operation brings the daemon back
\* to a running child.
C10_Original ==
    [][ (pc = "idle" /\ op = "close") => handle' = 0 ]_vars

\* C10 (amended): after close() has been called the daemon is marked closed
\* and holds no child handle until the next hook operation; that operation
\* does not fail for having been closed: it spawns a fresh child, takes its
\* handle and streams, clears the closed flag and waits for READY as a
\* first call does.
C10_CloseThenRespawn ==
    /\ [](pc = "idle" /\ op = "close" => handle = 0 /\ closed)
    /\ [][ (pc = "idle" /\ op = "close" /\ HookEntry) =>
              /\ spawned' = spawned + 1
              /\ handle' = spawned' /\ stdout' = spawned' /\ stdin' = spawned'
              /\ children'[handle'].alive
              /\ children'[handle'].out = <<>> /\ children'[handle'].inbox = <<>>
              /\ ~closed'
              /\ phase' = "ready" /\ ret' = NoRet ]_vars

\* the hook call that followed a close() passed the ready check on a fresh
\* child
C10_Witness ==
    /\ came_from = "close" /\ pc = "write"
    /\ spawned_by_call /\ handle = spawned /\ ~closed

(* ------------------------------- C11 ----------------------------------- *)

\* a step that enters close() from its caller
CloseEntry == pc = "idle" /\ op' = "close" /\ children' = children
\* a step in which receive_one finds the end of the child's output
EndOfOutput ==
    /\ pc \in {"recv", "tb_fatal", "tb_error"}
    /\ stdout # 0 /\ children[stdout].out = <<>> /\ ~children[stdout].alive
    /\ children' = children
    /\ pc' # pc /\ ret'.tag # "Abandoned"
\* a step that drops the daemon
DropStep == pc = "idle" /\ pc' = "dropped"

\* C11: a daemon is constructed not closed and becomes closed only inside
\* close() (called by the user or on end of output); dropping a daemon that
\* is not closed panics, also when it never spawned a child; close() on a
\* daemon that never spawned a child returns success with no exit status,
\* writes nothing and touches no process.
C11_DropUnclosedPanics ==
    /\ [](op = "none" => ~closed /\ pc = "idle")
    /\ [][ /\ (~closed /\ closed' => CloseEntry \/ EndOfOutput)
           /\ (DropStep /\ ~closed => ret'.tag = "Panic")
           /\ (pc = "idle" /\ op' = "close" /\ spawned = 0 =>
                 /\ pc' = "idle"
                 /\ ret' = [tag |-> "Ok", value |-> "None"]
                 /\ children' = children /\ spawned' = 0) ]_vars

\* a daemon that never spawned a child was dropped without close() and
\* panicked
C11_Witness == pc = "dropped" /\ ret.tag = "Panic" /\ spawned = 0 /\ op = "drop"

(* ------------------------------- C12 ----------------------------------- *)

\* C12: close() marks the daemon closed and releases the handle before
\* anything else; the shutdown line is written only inside close(), to the
\* child the exit check found running; the wait comes after the write; the
\* daemon stays closed until close() has returned, whatever it returns, so
\* that after a close() that failed with an I/O error a drop does not panic.
C12_CloseMarksFirst ==
    /\ [](pc \in {"close_write", "close_wait"} => closed /\ handle = 0 /\ closing # 0)
    /\ [](pc = "idle" /\ op = "close" /\ ret.tag = "IO" => closed)
    /\ [][ /\ (CloseEntry =>
                 /\ closed' /\ handle' = 0
                 /\ (pc' = "close_write" =>
                        handle # 0 /\ closing' = handle /\ children[handle].alive)
                 /\ (pc' = "idle" /\ handle # 0 /\ ret'.tag = "Ok" =>
                        ~children[handle].alive /\ ret'.value = "Some"))
           /\ (\A c \in ChildIds :
                 (Len(children'[c].inbox) > Len(children[c].inbox)
                    /\ children'[c].inbox[Len(children'[c].inbox)] = "shutdown") =>
                       pc = "close_write" /\ c = stdin /\ c = closing /\ pc' = "close_wait")
           /\ (pc' = "close_wait" => pc \in {"close_write", "close_wait"})
           /\ (pc = "idle" /\ op = "close" /\ ret.tag = "IO" /\ DropStep =>
                 ret'.tag = "Dropped") ]_vars

\* close() on a daemon that had spawned a child failed with an I/O error;
\* the daemon is closed and holds no handle
C12_Witness ==
    /\ pc = "idle" /\ op = "close" /\ ret.tag = "IO"
    /\ closed /\ handle = 0 /\ spawned > 0

(* ------------------------------- C13 ----------------------------------- *)

\* C13 as stated, for children that follow the wire protocol: when a hook
\* call was abandoned with its command written and unanswered, the next
\* hook call, if it reads a record the old child wrote, fails with Closed;
\* otherwise it runs on a child it spawned itself.
C13_Original ==
    [][ (conforming /\ came_from = "abandoned" /\ phase = "ready"
           /\ ReadStep /\ children[stdout].unanswered >= 1 /\ Returns) =>
              (ret'.tag = "Closed" \/ spawned_by_call) ]_vars

(* ------------------------------- C14 ----------------------------------- *)

\* C14 as stated: on end of output the call fails with Closed.
C14_Original ==
    [][ EndOfOutput => Returns /\ ret'.tag = "Closed" ]_vars

\* C14 (amended): when the child's output ends while the parent is reading
\* a record (in the ready wait, while an outcome is awaited, or where the
\* TRACEBACK after ERROR / FATAL is read) the daemon runs close(): it is
\* marked closed and the handle is released; the call fails with Closed
\* once the child has been waited for, or with the I/O error close() ran
\* into; the next hook call spawns a fresh child.
C14_EndOfOutputCloses ==
    [][ /\ (EndOfOutput =>
              /\ closed' /\ handle' = 0
              /\ Returns
              /\ ret'.tag \in {"Closed", "IO"}
              /\ hook_result' = ret'
              /\ (ret'.tag = "Closed" => handle # 0 /\ ~children[handle].alive))
        /\ (pc = "idle" /\ op \in Hooks /\ ret.tag = "Closed" /\ HookEntry =>
              /\ spawned' = spawned + 1
              /\ handle' = spawned' /\ stdout' = spawned' /\ stdin' = spawned'
              /\ children'[handle'].alive /\ children'[handle'].out = <<>>
              /\ ~closed') ]_vars

\* a hook call found the end of the output of its exited child and failed
\* with Closed; the daemon is closed and holds no handle
C14_Witness ==
    /\ pc = "idle" /\ op \in Hooks /\ ret.tag = "Closed"
    /\ closed /\ handle = 0
    /\ stdout # 0 /\ ~children[stdout].alive /\ children[stdout].out = <<>>

(* ------------------------------- C15 ----------------------------------- *)

KnownKeywords == {"DEBUG", "EXPECT", "OK", "TRACEBACK", "ERROR", "STDOUT",
                  "STDERR", "READY", "FATAL", "SHUTDOWN"}

\* C15 as stated: a record read from the child whose first token is not one
\* of the ten known keywords makes the call fail with UnknownResponse
\* carrying the whole line, and an empty line makes it fail with
\* EmptyResponse.
C15_Original ==
    [][ ReadStep =>
          /\ (NextLine.tag \notin KnownKeywords /\ NextLine # EmptyLine =>
                Returns /\ hook_result' = [tag |-> "UnknownResponse", line |-> NextLine])
          /\ (NextLine = EmptyLine =>
                Returns /\ hook_result' = [tag |-> "EmptyResponse"]) ]_vars

(* ================== properties of one hook call ======================== *)

RECURSIVE Terminated(_)
\* the bytes of a sequence of lines, each followed by a newline
Terminated(lines) ==
    IF lines = <<>> THEN <<>>
    ELSE lines[1] \o <<NL>> \o Terminated(Tail(lines))

Written == output.tag \in {"Written", "Returned"}

(* ------------------------------- C16 ----------------------------------- *)

\* C16: the block written for a hook call is the lines `run`, the backend
\* name, each backend path in order (none without a path list), one empty
\* line, the hook name and the hook's arguments, an empty argument being an
\* empty line, each line followed by a newline; for build with kind Wheel,
\* output directory /tmp/out, no backend paths and no metadata directory
\* the bytes are run\n<backend>\n\nbuild_wheel\n/tmp/out\n\n\n.
C16_CommandBlock ==
    Written =>
      /\ output.bytes =
           Terminated(<<Str("run"), Str(input.backend)>>
                      \o (IF input.backend_path.some THEN input.backend_path.value ELSE <<>>)
                      \o <<Empty>>
                      \o <<Str(hook_name(input.hook, input.kind))>>
                      \o hook_args(input))
      /\ (input = Call("build", "Wheel", None, Str("/tmp/out"), None) =>
            output.bytes = <<"run", NL, "backend.mod", NL, NL,
                             "build_wheel", NL, "/tmp/out", NL, NL, NL>>)

\* the block of build(Wheel, /tmp/out) with neither backend paths nor a
\* metadata directory has been written
C16_Witness ==
    /\ output.tag = "Written"
    /\ input = Call("build", "Wheel", None, Str("/tmp/out"), None)

(* ------------------------------- C17 ----------------------------------- *)

\* C17 as stated: for every hook and every combination of arguments the
\* last line of the block written is empty.
C17_Original ==
    Written =>
      /\ Len(output.bytes) >= 2
      /\ output.bytes[Len(output.bytes)] = NL
      /\ output.bytes[Len(output.bytes) - 1] = NL

(* ------------------------------- C18 ----------------------------------- *)

\* C18 as stated: prepare_metadata_for_build returns the path of the OK
\* payload when the backend produced metadata, and a success without a path
\* when the backend declined (an OK with nothing after it).
C18_Original ==
    (output.tag = "Returned" /\ input.hook = "prepare_metadata_for_build") =>
        output.value = IF output.payload = <<>>
                       THEN [tag |-> "Ok", value |-> <<"None">>]
                       ELSE [tag |-> "Ok", value |-> <<"Some", output.payload>>]

(* ------------------------------- C19 ----------------------------------- *)

\* every element is in single quotes and is empty or a valid requirement
AllQuotedValid(es) ==
    \A i \in 1..Len(es) :
        es[i].quoted /\ (es[i].text = <<>> \/ ValidRequirement(es[i].text))

RECURSIVE NonEmptyTexts(_)
\* the texts of the elements that are not empty, in order
NonEmptyTexts(es) ==
    IF es = <<>> THEN <<>>
    ELSE (IF es[1].text = <<>> THEN <<>> ELSE <<es[1].text>>) \o NonEmptyTexts(Tail(es))

\* C19: for an OK payload that is a bracketed list of single-quoted
\* elements separated by comma-space, each empty or a valid requirement,
\* get_requires_for_build returns the requirements of the elements that are
\* not empty, one per element and in the order of the payload; `[]` yields
\* the empty list.
C19_RequirementsInOrder ==
    (output.tag = "Returned" /\ input.hook = "get_requires_for_build") =>
      /\ \A es \in ElemSeqs :
            (AllQuotedValid(es) /\ output.payload = Render(es)) =>
                output.value = [tag |-> "Ok", value |-> NonEmptyTexts(es)]
      /\ (output.payload = <<"[", "]">> => output.value = [tag |-> "Ok", value |-> <<>>])

\* the payload ['w', 's>4'] yielded w, then s>4
C19_Witness ==
    /\ output.tag = "Returned" /\ input.hook = "get_requires_for_build"
    /\ output.payload = <<"[", "'", "w", "'", ",", " ", "'", "s", ">", "4", "'", "]">>
    /\ output.value = [tag |-> "Ok", value |-> << <<"w">>, <<"s", ">", "4">> >>]

(* ------------------------------- C20 ----------------------------------- *)

\* an element that is not in single quotes, or whose quoted text is not a
\* valid requirement
Malformed(e) == ~e.quoted \/ (e.text # <<>> /\ ~ValidRequirement(e.text))

FirstMalformed(es) ==
    es[CHOOSE i \in 1..Len(es) :
          Malformed(es[i]) /\ \A j \in 1..(i - 1) : ~Malformed(es[j])]

\* C20 as stated: if any element of the list is malformed the call fails
\* with InvalidResult carrying the first such element; no malformed element
\* is left out of a successful result.
C20_Original ==
    (output.tag = "Returned" /\ input.hook = "get_requires_for_build") =>
        \A es \in ElemSeqs :
            (output.payload = Render(es) /\ \E i \in 1..Len(es) : Malformed(es[i])) =>
                output.value = [tag |-> "InvalidResult", item |-> FirstMalformed(es).text]

(* ==================== properties of the hash strategy ================== *)

Asked == output.tag = "Asked"

\* the decision table, by the identity looked up
Table(strategy, id) ==
    CASE strategy.tag = "None" -> HashPolicy_None
      [] strategy.tag = "Generate" -> HashPolicy_Generate
      [] strategy.tag = "Verify" /\ id \in DOMAIN strategy.hashes ->
            HashPolicy_Validate(strategy.hashes[id])
      [] strategy.tag = "Verify" /\ id \notin DOMAIN strategy.hashes -> HashPolicy_None
      [] strategy.tag = "Require" /\ id \in DOMAIN strategy.hashes ->
            HashPolicy_Validate(strategy.hashes[id])
      [] strategy.tag = "Require" /\ id \notin DOMAIN strategy.hashes ->
            HashPolicy_Validate(<<>>)

\* C21: get, get_package and get_url follow the decision table: None gives
\* policy None, Generate gives Generate, Verify(map) gives Validate(map[id])
\* for an identity in the map and None for one absent, Require(map) gives
\* Validate(map[id]) for one present and Validate(empty list) for one absent.
C21_DecisionTable ==
    Asked =>
        /\ output.get = Table(input.strategy, output.distribution.package_id)
        /\ output.get_package = Table(input.strategy, [variant |-> "Registry", key |-> output.name])
        /\ output.get_url = Table(input.strategy, [variant |-> "Url", key |-> output.url])

\* a Verify strategy with a non-empty map was asked for a name it does not
\* hold and for a URL it holds
C21_Witness ==
    /\ Asked
    /\ input.strategy.tag = "Verify"
    /\ output.get_package = HashPolicy_None
    /\ output.get_url.tag = "Validate"
    /\ Len(output.get_url.hashes) = 2

\* C22: allows_package and allows_url return false only for a Require
\* strategy whose map does not hold the identity of the name or URL; they
\* return true for None, Generate and Verify, and for Require on every
\* identity in the map.
C22_AllowsUnlessRequireAbsent ==
    Asked =>
        /\ output.allows_package =
              ~(/\ input.strategy.tag = "Require"
                /\ [variant |-> "Registry", key |-> output.name] \notin DOMAIN input.strategy.hashes)
        /\ output.allows_url =
              ~(/\ input.strategy.tag = "Require"
                /\ [variant |-> "Url", key |-> output.url] \notin DOMAIN input.strategy.hashes)

\* Require({albatross -> one digest}) was asked about walrus and denied it,
\* and answered Validate(empty) for it
C22_Witness ==
    /\ Asked
    /\ input.strategy.tag = "Require"
    /\ DOMAIN input.strategy.hashes = {[variant |-> "Registry", key |-> "albatross"]}
    /\ output.name = "walrus"
    /\ ~output.allows_package
    /\ ~output.allows_url
    /\ output.get_package = HashPolicy_Validate(<<>>)

\* C23: get(d) returns the policy get_package(n) returns when d.package_id()
\* is the registry identity of n, and the policy get_url(u) returns when it
\* is the URL identity of u.
C23_GetAgrees ==
    Asked =>
        /\ output.distribution.package_id = from_registry(output.name)
              => output.get = output.get_package
        /\ output.distribution.package_id = from_url(output.url)
              => output.get = output.get_url

\* a Require strategy was asked about a distribution whose identity is the
\* registry identity of the name asked, and the map does not hold it
C23_Witness ==
    /\ Asked
    /\ input.strategy.tag = "Require"
    /\ output.distribution.package_id = from_registry(output.name)
    /\ output.distribution.package_id \notin DOMAIN input.strategy.hashes
    /\ output.get = HashPolicy_Validate(<<>>)

Constructed(from) == output.tag = "Constructed" /\ input.from = from

\* a named requirement with a single equality specifier, or a direct URL
Pinned(requirement) ==
    \/ requirement.form = "Unnamed"
    \/ requirement.source.variant \in {"Url", "Git", "Path"}
    \/ /\ requirement.source.variant = "Registry"
       /\ Len(requirement.source.specifier) = 1
       /\ \A i \in 1..Len(requirement.source.specifier) : requirement.source.specifier[i] = "Equal"

\* the identity a pinned requirement stands for
IdentityOf(requirement) ==
    IF requirement.form = "Named" /\ requirement.source.variant = "Registry"
    THEN [variant |-> "Registry", key |-> requirement.name]
    ELSE [variant |-> "Url", key |-> requirement.source.url]

AllParse(digests) == \A i \in 1..Len(digests) : HashDigest_from_str(digests[i]).ok
Parsed(digests) == [i \in 1..Len(digests) |-> HashDigest_from_str(digests[i]).value]

FirstOf(S) == CHOOSE i \in S : \A j \in S : i <= j
LastOf(S) == CHOOSE i \in S : \A j \in S : j <= i

\* the requirements require cannot accept
RequireOffenders(requirements) ==
    {i \in 1..Len(requirements) :
        /\ requirements[i].markers
        /\ \/ ~Pinned(requirements[i].requirement)
           \/ requirements[i].digests = <<>>
           \/ ~AllParse(requirements[i].digests)}

\* the error is one of UnpinnedRequirement, MissingHashes and Hash, and about
\* the entry given
RequireErrorAbout(err, entry) ==
    \/ /\ err.tag = "UnpinnedRequirement" /\ err.mode = "Require"
       /\ err.requirement = entry.requirement /\ ~Pinned(entry.requirement)
    \/ /\ err.tag = "MissingHashes" /\ err.mode = "Require"
       /\ err.requirement = entry.requirement /\ entry.digests = <<>>
    \/ /\ err.tag = "Hash"
       /\ \E i \in 1..Len(entry.digests) :
             entry.digests[i] = err.digest /\ ~HashDigest_from_str(err.digest).ok

\* C24: require returns Ok only if every requirement whose markers are
\* satisfied is pinned and carries at least one digest, all of which parse;
\* otherwise it returns UnpinnedRequirement, MissingHashes or a Hash parse
\* error for the first offending requirement in iteration order, and no
\* strategy.
C24_RequireOkOrFirstOffender ==
    Constructed("require") =>
        LET bad == RequireOffenders(input.requirements)
            result == output.result
        IN  /\ result.ok <=> bad = {}
            /\ result.ok => result.value.tag = "Require"
            /\ ~result.ok =>
                  /\ "value" \notin DOMAIN result
                  /\ RequireErrorAbout(result.err, input.requirements[FirstOf(bad)])

\* require was given two offending requirements that differ, and reported
\* the first of the two: MissingHashes
C24_Witness ==
    /\ Constructed("require")
    /\ Len(input.requirements) = 2
    /\ RequireOffenders(input.requirements) = {1, 2}
    /\ input.requirements[1].requirement # input.requirements[2].requirement
    /\ ~output.result.ok
    /\ output.result.err.tag = "MissingHashes"
    /\ output.result.err.requirement = input.requirements[1].requirement

\* C25: every identity in the map of a strategy require returned has a
\* non-empty digest list, so for such a strategy allows_package / allows_url
\* is true exactly when get_package / get_url is Validate of a non-empty list
\* and false exactly when it is Validate(empty).
C25_RequireMapNonEmpty ==
    (Constructed("require") /\ output.result.ok) =>
        LET strategy == output.result.value
        IN  /\ \A id \in DOMAIN strategy.hashes : strategy.hashes[id] # <<>>
            /\ \A n \in PackageNames :
                  /\ get_package(strategy, n).tag = "Validate"
                  /\ allows_package(strategy, n) <=> get_package(strategy, n).hashes # <<>>
                  /\ ~allows_package(strategy, n) <=> get_package(strategy, n) = HashPolicy_Validate(<<>>)
            /\ \A u \in Urls :
                  /\ get_url(strategy, u).tag = "Validate"
                  /\ allows_url(strategy, u) <=> get_url(strategy, u).hashes # <<>>
                  /\ ~allows_url(strategy, u) <=> get_url(strategy, u) = HashPolicy_Validate(<<>>)

\* require returned a strategy that holds albatross and the URL u: it allows
\* both and denies walrus and v
C25_Witness ==
    /\ Constructed("require")
    /\ output.result.ok
    /\ DOMAIN output.result.value.hashes = {from_registry("albatross"), from_url("u")}
    /\ allows_package(output.result.value, "albatross")
    /\ ~allows_package(output.result.value, "walrus")
    /\ ~allows_url(output.result.value, "v")

\* the entries that resolve to the identity: markers satisfied and pinned
Resolving(requirements, id) ==
    {i \in 1..Len(requirements) :
        /\ requirements[i].markers
        /\ Pinned(requirements[i].requirement)
        /\ IdentityOf(requirements[i].requirement) = id}

\* of those, the entries the construction enters into the map: in verify,
\* the ones that carry digests
Entering(requirements, id) ==
    {i \in Resolving(requirements, id) :
        input.from = "verify" => requirements[i].digests # <<>>}

BuiltMap == (Constructed("require") \/ Constructed("verify")) /\ output.result.ok

VerifyOffenders(requirements) ==
    {i \in 1..Len(requirements) :
        /\ requirements[i].markers
        /\ requirements[i].digests # <<>>
        /\ \/ ~Pinned(requirements[i].requirement)
           \/ ~AllParse(requirements[i].digests)}

WithDigests(entry) == entry.digests # <<>>

\* verify's result from the requirements that carry digests
VerifyOptional ==
    /\ output.result = verify(SelectSeq(input.requirements, WithDigests))
    /\ output.result.ok <=> VerifyOffenders(input.requirements) = {}
    /\ output.result.ok =>
          /\ output.result.value.tag = "Verify"
          /\ \A i \in 1..Len(input.requirements) :
                LET entry == input.requirements[i]
                IN  (entry.markers /\ entry.digests # <<>>) =>
                        /\ IdentityOf(entry.requirement) \in DOMAIN output.result.value.hashes
                        /\ \E j \in i..Len(input.requirements) :
                              /\ input.requirements[j].markers
                              /\ IdentityOf(input.requirements[j].requirement)
                                    = IdentityOf(entry.requirement)
                              /\ output.result.value.hashes[IdentityOf(entry.requirement)]
                                    = Parsed(input.requirements[j].digests)

\* C27 as stated: digests are optional in verify, and a requirement with
\* digests that is not pinned gives UnpinnedRequirement in Verify mode.
C27_Original ==
    Constructed("verify") =>
        /\ VerifyOptional
        /\ ~output.result.ok =>
              LET first == input.requirements[FirstOf(VerifyOffenders(input.requirements))]
              IN  IF ~Pinned(first.requirement)
                  THEN /\ output.result.err.tag = "UnpinnedRequirement"
                       /\ output.result.err.mode = "Verify"
                       /\ output.result.err.requirement = first.requirement
                  ELSE output.result.err.tag = "Hash"

\* C27, amended: digests are optional in verify: a requirement without
\* digests never causes an error and adds no map entry, even when unpinned.
\* A requirement with digests has them parsed first, and a digest that does
\* not parse is the error; with digests that parse it must be pinned or a
\* direct URL, else UnpinnedRequirement in Verify mode, and its digests are
\* stored under its identity.
C27_VerifyParsesThenPins ==
    Constructed("verify") =>
        /\ VerifyOptional
        /\ ~output.result.ok =>
              LET first == input.requirements[FirstOf(VerifyOffenders(input.requirements))]
              IN  IF ~AllParse(first.digests)
                  THEN /\ output.result.err.tag = "Hash"
                       /\ \E i \in 1..Len(first.digests) : first.digests[i] = output.result.err.digest
                  ELSE /\ output.result.err.tag = "UnpinnedRequirement"
                       /\ output.result.err.mode = "Verify"
                       /\ output.result.err.requirement = first.requirement

\* verify was given an unpinned requirement without digests and then an
\* unpinned one with a digest that parses: the first was passed over, the
\* second gave UnpinnedRequirement
C27_Witness ==
    /\ Constructed("verify")
    /\ Len(input.requirements) = 2
    /\ input.requirements[1].markers
    /\ ~Pinned(input.requirements[1].requirement)
    /\ input.requirements[1].digests = <<>>
    /\ VerifyOffenders(input.requirements) = {2}
    /\ AllParse(input.requirements[2].digests)
    /\ ~output.result.ok
    /\ output.result.err.tag = "UnpinnedRequirement"
    /\ output.result.err.requirement = input.requirements[2].requirement

MarkersHold(entry) == entry.markers

\* C28: in require and in verify a requirement whose markers evaluate to
\* false is skipped entirely: the result is the one the requirements with
\* satisfied markers give alone, so it adds no map entry, replaces none and
\* causes no error, whatever its pinning or digests.
C28_MarkerFalseSkipped ==
    /\ Constructed("require") =>
          output.result = require(SelectSeq(input.requirements, MarkersHold))
    /\ Constructed("verify") =>
          output.result = verify(SelectSeq(input.requirements, MarkersHold))

\* after a pinned requirement with a digest came one for the same identity
\* whose markers are false and whose digest does not parse: the map holds the
\* first one's digest
C28_Witness ==
    /\ BuiltMap
    /\ Len(input.requirements) = 2
    /\ input.requirements[1].markers
    /\ ~input.requirements[2].markers
    /\ IdentityOf(input.requirements[1].requirement) = IdentityOf(input.requirements[2].requirement)
    /\ input.requirements[2].digests # <<>>
    /\ ~AllParse(input.requirements[2].digests)
    /\ DOMAIN output.result.value.hashes = {IdentityOf(input.requirements[1].requirement)}
    /\ output.result.value.hashes[IdentityOf(input.requirements[1].requirement)]
          = Parsed(input.requirements[1].digests)

\* C29: pin yields a registry identity for a named registry requirement if
\* and only if it has exactly one version specifier and that one's operator
\* is equality; a requirement whose source is a URL, git or a local path
\* always yields a URL identity.
C29_PinIffSingleEqual ==
    output.tag = "Pinned" =>
        IF input.requirement.source.variant = "Registry"
        THEN /\ output.id.some <=> input.requirement.source.specifier = <<"Equal">>
             /\ output.id.some =>
                   output.id.value = [variant |-> "Registry", key |-> input.requirement.name]
        ELSE /\ output.id.some
             /\ output.id.value = [variant |-> "Url", key |-> input.requirement.source.url]

\* pin was called on a registry requirement with two equality specifiers and
\* gave no identity
C29_Witness ==
    /\ output.tag = "Pinned"
    /\ input.requirement.source.variant = "Registry"
    /\ input.requirement.source.specifier = <<"Equal", "Equal">>
    /\ ~output.id.some

(* ================== properties of the record stream ==================== *)

RECURSIVE Outcome(_, _, _, _)
\* what a call at position p that has `records` and then the end of the
\* output ahead of it returns
Outcome(p, ph, l, records) ==
    IF p = "write" THEN Outcome("recv", "await", NoLine, records)
    ELSE IF records = <<>> THEN [tag |-> "EndOfOutput"]
    ELSE LET parsed == try_from_str(Head(records))
             k == IF parsed.ok THEN OnResponse(p, ph, l, parsed.response)
                  ELSE Return(parsed.err)
         IN  IF k.done THEN k.result
             ELSE Outcome(k.pc, k.phase, k.local, Tail(records))

RECURSIVE WithoutAdvisory(_, _)
\* the records without the DEBUG / EXPECT records ahead of READY and
\* without the DEBUG / EXPECT / STDOUT / STDERR records between READY and
\* the next record of another kind
WithoutAdvisory(records, advisory) ==
    IF records = <<>> THEN <<>>
    ELSE IF Head(records).tag \in advisory
         THEN WithoutAdvisory(Tail(records), advisory)
         ELSE IF Head(records).tag = "READY" /\ advisory = {"DEBUG", "EXPECT"}
              THEN <<Head(records)>>
                   \o WithoutAdvisory(Tail(records), {"DEBUG", "EXPECT", "STDOUT", "STDERR"})
              ELSE records

Bare == WithoutAdvisory(input.records, {"DEBUG", "EXPECT"})

\* C30: the outcome of a hook call does not depend on advisory records: the
\* call returns what it returns on the same output without the DEBUG and
\* EXPECT records ahead of READY and without the DEBUG, EXPECT, STDOUT and
\* STDERR records between the command block and the OK / ERROR / FATAL
\* record.
C30_AdvisoryRecordsIgnored ==
    output.tag = "Returned" =>
        LET bare == Outcome("recv", "ready", NoLine, Bare)
        IN  IF output.eof THEN bare = [tag |-> "EndOfOutput"]
            ELSE output.result = bare

\* the output was DEBUG or EXPECT, READY, one of STDOUT and STDERR, and OK:
\* the call returned the payload of the OK
C30_Witness ==
    /\ output.tag = "Returned"
    /\ ~output.eof
    /\ Len(input.records) = 4
    /\ input.records[1].tag \in {"DEBUG", "EXPECT"}
    /\ input.records[3].tag \in {"STDOUT", "STDERR"}
    /\ Len(Bare) = 2
    /\ output.result = [tag |-> "Ok", value |-> <<"f">>]

(* ====================== properties of one line ========================= *)

LineParsed == output.tag = "Parsed"

\* the place of the first blank of s, 0 if it has none
FirstBlank(s) ==
    IF \A i \in 1..Len(s) : s[i] # " " THEN 0
    ELSE CHOOSE i \in 1..Len(s) : s[i] = " " /\ \A j \in 1..(i - 1) : s[j] # " "

\* the line is the keyword, a blank and more
StartsWith(keyword) ==
    Len(input.line) >= 2 /\ input.line[1] = keyword /\ input.line[2] = " "
AfterKeyword == SubSeq(input.line, 3, Len(input.line))
\* the second token and what follows the blank after it
KindToken ==
    IF FirstBlank(AfterKeyword) = 0 THEN AfterKeyword
    ELSE SubSeq(AfterKeyword, 1, FirstBlank(AfterKeyword) - 1)
Message ==
    IF FirstBlank(AfterKeyword) = 0 THEN <<>>
    ELSE SubSeq(AfterKeyword, FirstBlank(AfterKeyword) + 1, Len(AfterKeyword))

\* C31: for ERROR and FATAL lines the second token is the kind and the
\* whole rest of the line, further blanks included, is the message; an
\* ERROR line whose kind is not one of the nine known kinds fails with
\* UnknownErrorKind carrying that token, a FATAL line accepts any kind.
C31_KindAndMessage ==
    LineParsed =>
        /\ StartsWith("ERROR") =>
              IF \E name \in HookErrorKinds : KindToken = <<name>>
              THEN output.result =
                      Response([tag |-> "ERROR", kind |-> KindToken[1], text |-> Message])
              ELSE output.result = Failure([tag |-> "UnknownErrorKind", text |-> KindToken])
        /\ (StartsWith("FATAL") /\ FirstBlank(AfterKeyword) # 0) =>
              output.result = Response([tag |-> "FATAL", kind |-> KindToken, text |-> Message])

\* the line `FATAL x x x` was parsed: the kind is x, the message `x x`
C31_Witness ==
    /\ LineParsed
    /\ input.line = <<"FATAL", " ", "x", " ", "x", " ", "x">>
    /\ output.result = Response([tag |-> "FATAL", kind |-> <<"x">>, text |-> <<"x", " ", "x">>])

\* the line is TRACEBACK alone or TRACEBACK, a blank and a payload
IsTraceback ==
    /\ input.line # <<>> /\ input.line[1] = "TRACEBACK"
    /\ Len(input.line) >= 2 => input.line[2] = " "

RECURSIVE RunLength(_)
\* the number of newline escapes s starts with
RunLength(s) == IF s = <<>> \/ Head(s) # ESC THEN 0 ELSE 1 + RunLength(Tail(s))

RECURSIVE Halved(_)
\* s with every run of n newline escapes turned into n / 2 newlines, rounded
\* up
Halved(s) ==
    IF s = <<>> THEN <<>>
    ELSE IF Head(s) # ESC THEN <<Head(s)>> \o Halved(Tail(s))
    ELSE [i \in 1..((RunLength(s) + 1) \div 2) |-> NL]
         \o Halved(SubSeq(s, RunLength(s) + 1, Len(s)))

\* C32 as stated: the decoded traceback text holds no two adjacent newlines.
C32_Original ==
    (LineParsed /\ IsTraceback) =>
        \A i \in 1..(Len(output.result.response.text) - 1) :
            ~(output.result.response.text[i] = NL /\ output.result.response.text[i + 1] = NL)

\* C32, amended: a TRACEBACK record has every newline escape of the payload
\* replaced by a newline and then each pair of adjacent newlines, taken from
\* left to right without overlap, replaced by one: a run of n escapes becomes
\* n / 2 newlines, rounded up, so that a run of three or more still leaves
\* adjacent newlines.
C32_PairsCollapsedOnce ==
    (LineParsed /\ IsTraceback) =>
        /\ output.result.outcome = "Ok"
        /\ output.result.response.tag = "TRACEBACK"
        /\ output.result.response.text = Halved(AfterKeyword)

\* a payload with a run of three and a run of two escapes was decoded to two
\* newlines and one
C32_Witness ==
    /\ LineParsed
    /\ input.line = <<"TRACEBACK", " ", "x", " ", ESC, ESC, ESC, " ", ESC, ESC>>
    /\ output.result.response.text = <<"x", " ", NL, NL, " ", NL>>

\* C39 as stated: for every line the parser returns a record or a
\* DaemonError and never aborts the parent.
C39_Original ==
    LineParsed => output.result.outcome \in {"Ok", "Err"}

(* ================ further properties of the daemon ===================== *)

(* ------------------------------- C33 ----------------------------------- *)

\* C33: close() on a daemon already closed, with no hook call in between,
\* returns None at once, writes no shutdown line, waits on no process and
\* leaves the daemon marked closed.
C33_CloseIdempotent ==
    [][ (pc = "idle" /\ op = "close" /\ CloseEntry) =>
            /\ pc' = "idle"
            /\ ret' = [tag |-> "Ok", value |-> "None"]
            /\ closed /\ closed'
            /\ handle = 0 /\ handle' = 0
            /\ children' = children
            /\ stdin' = stdin /\ stdout' = stdout ]_vars

\* close() returned None on a daemon that had spawned a child and still
\* holds that child's streams: the child was closed before
C33_Witness ==
    /\ pc = "idle" /\ op = "close"
    /\ ret = [tag |-> "Ok", value |-> "None"]
    /\ spawned > 0 /\ stdin # 0 /\ closed /\ handle = 0

(* ------------------------------- C34 ----------------------------------- *)

\* the step in which receive_one hands over the record read after ERROR /
\* FATAL
TracebackStep ==
    /\ pc \in {"tb_fatal", "tb_error"}
    /\ stdout # 0 /\ children[stdout].out # <<>>
    /\ pc' = "idle" /\ ret'.tag # "Abandoned"

\* C34: after an ERROR or FATAL record the parent consumes exactly one
\* further record: a TRACEBACK gives the error its text, any other record
\* leaves the traceback empty and is discarded, so that no later read sees
\* it.
C34_OneRecordAfterError ==
    [][ /\ (ReadStep /\ pc = "recv" /\ phase = "await" /\ NextLine.tag = "ERROR" =>
                pc' = "tb_error")
        /\ (ReadStep /\ pc = "recv" /\ NextLine.tag = "FATAL" => pc' = "tb_fatal")
        /\ (pc' \in {"tb_fatal", "tb_error"} /\ pc' # pc =>
                pc = "recv" /\ NextLine.tag = (IF pc' = "tb_error" THEN "ERROR" ELSE "FATAL"))
        /\ (TracebackStep =>
                /\ children'[stdout].out = Tail(children[stdout].out)
                /\ stdout' = stdout
                /\ NextLine \in ProtocolLines =>
                      /\ hook_result'.tag = (IF pc = "tb_error" THEN "HookError" ELSE "Crashed")
                      /\ hook_result'.traceback =
                            (IF NextLine.tag = "TRACEBACK" THEN DecodeTraceback(NextLine.b)
                             ELSE <<>>)) ]_vars

\* a call failed with HookError and an empty traceback: the record read
\* after the ERROR was not a TRACEBACK, and it is gone from the child's
\* output
C34_Witness ==
    /\ pc = "idle" /\ op \in Hooks
    /\ ret.tag = "HookError" /\ ret.traceback = <<>>
    /\ handle # 0 /\ children[handle].alive /\ children[stdout].out = <<>>

(* ------------------------------- C35 ----------------------------------- *)

ProtocolFailures ==
    {"NotReady", "UnexpectedResponse", "UnknownResponse", "UnknownErrorKind",
     "HookError", "Crashed"}

\* C35: a hook call that fails with NotReady, UnexpectedResponse,
\* UnknownResponse, UnknownErrorKind, HookError or Crashed leaves the handle,
\* the streams and the closed flag as they were and writes no shutdown; if
\* the child is still running the next hook call spawns nothing and reads
\* the same child's output where the failed call stopped.
C35_FailureKeepsChild ==
    [][ /\ (Returns /\ ret'.tag \in ProtocolFailures =>
                /\ handle' = handle /\ stdout' = stdout /\ stdin' = stdin
                /\ closed' = closed
                /\ handle # 0 /\ stdout = handle /\ stdin = handle
                /\ children'[handle].alive = children[handle].alive
                /\ children'[handle].inbox = children[handle].inbox)
        /\ (pc = "idle" /\ op \in Hooks /\ ret.tag \in ProtocolFailures
              /\ HookEntry /\ Running =>
                /\ spawned' = spawned
                /\ handle' = handle /\ stdout' = stdout /\ stdin' = stdin
                /\ children' = children
                /\ closed' = closed) ]_vars

\* after a call that failed with Crashed the next call waits for READY on
\* the same child, which is still running
C35_Witness ==
    /\ came_from = "crashed" /\ pc = "recv" /\ phase = "ready"
    /\ ~spawned_by_call /\ spawned = 1 /\ handle = 1 /\ stdout = 1
    /\ children[1].alive

(* ------------------------------- C36 ----------------------------------- *)

\* a step in which ensure_started spawns a child
SpawnStep == spawned' # spawned

\* C36: the closed flag is false after construction, becomes true on every
\* close() (called, or run at the end of the output) and false on every
\* spawn, and changes at no other step; a handle is held exactly from a
\* spawn to the next close(), so a drop panics exactly when a spawn happened
\* since the last close() or no close() ever happened, and a daemon closed
\* and then used again must be closed again before it is dropped.
C36_ClosedFlag ==
    /\ [](op = "none" => ~closed)
    /\ [](handle # 0 => ~closed)
    /\ [][ /\ (CloseEntry \/ EndOfOutput => closed' /\ handle' = 0)
           /\ (SpawnStep => ~closed' /\ handle' # 0)
           /\ (~CloseEntry /\ ~EndOfOutput /\ ~SpawnStep =>
                 closed' = closed /\ handle' = handle)
           /\ (DropStep => (ret'.tag = "Panic" <=> ~closed)) ]_vars

\* a daemon that holds its second child, spawned after the first one was
\* given up, was dropped without a close() since, and panicked
C36_Witness ==
    /\ pc = "dropped" /\ ret.tag = "Panic"
    /\ spawned = 2 /\ handle = 2
    /\ ~closed

(* ------------------------------- C37 ----------------------------------- *)

\* C37: whenever the daemon holds a child handle it holds the input and the
\* output stream of that same child, and wherever receive_one, run_hook or
\* close() is about to use a stream the stream is there.
C37_StreamsWithHandle ==
    /\ handle # 0 => stdout = handle /\ stdin = handle
    /\ pc \in {"recv", "tb_fatal", "tb_error"} => stdout # 0
    /\ pc = "write" => stdin # 0
    /\ pc = "close_write" => stdin # 0 /\ stdin = closing

\* close() is about to write the shutdown line to the second child, whose
\* handle it took
C37_Witness ==
    /\ pc = "close_write" /\ closing = 2 /\ stdin = 2 /\ stdout = 2
    /\ handle = 0 /\ children[2].alive

(* ------------------------------- C38 ----------------------------------- *)

Awaiting == output.tag = "Reading" /\ pc = "recv" /\ phase = "await"
CallReturned == output.tag = "Returned"

\* the place of the first record of records that is not DEBUG, EXPECT,
\* STDOUT or STDERR, 0 if there is none
FirstDecisive(records) ==
    LET decisive == {i \in 1..Len(records) :
                        records[i].tag \notin {"DEBUG", "EXPECT", "STDOUT", "STDERR"}}
    IN  IF decisive = {} THEN 0 ELSE CHOOSE i \in decisive : \A j \in decisive : i <= j

\* the child emits a record that is not advisory, or closes its output
EmitsOrCloses == FirstDecisive(output.rest) # 0 \/ input.tail = "eof"

\* the same, and after an ERROR or FATAL record the child emits one record
\* more or closes its output
EmitsEnough ==
    LET i == FirstDecisive(output.rest)
    IN  IF i = 0 THEN input.tail = "eof"
        ELSE output.rest[i].tag \in {"ERROR", "FATAL"} =>
                (i < Len(output.rest) \/ input.tail # "silent")

====
